---- MODULE Spec2Model ----
(***************************************************************************)
(* A model of ananselib: the byte-signature scanner (crate fastsearch,     *)
(* src/search/src/lib.rs) and the asynchronous ZIP reader built on it      *)
(* (crate zip, src/zip/src).                                               *)
(*                                                                         *)
(* Conventions.  Bytes are the integers 0..255.  A slice is a sequence;    *)
(* Rust indexes from 0, so At(s, i) is s[i + 1].  A usize that wrapped     *)
(* below zero in a build without overflow checks is kept as the negative   *)
(* number it is congruent to modulo 2^64 (two's complement), and compared  *)
(* as unsigned by UGe.  The variable overflow_checks is the build profile: *)
(* TRUE panics on integer overflow (debug), FALSE wraps (release).         *)
(* 32 and 64 bit wire integers are kept as little-endian sequences of      *)
(* 16-bit limbs, because they do not fit the model checker's integers.     *)
(***************************************************************************)
EXTENDS Integers, Sequences, FiniteSets, TLC

VARIABLES
    overflow_checks,  \* build profile: TRUE = overflow panics, FALSE = wraps
    space,            \* scanner: the haystack
    pattern,          \* scanner: the needle
    op,               \* scanner: the operation applied ("none" before)
    found,            \* scanner: what the operation returned
    source,           \* reader: the bytes of the seekable source
    layout,           \* reader: how the source was laid out (ground truth)
    pc,               \* reader: "closed", "open", "failed"
    eocdr,            \* reader: what read_zip_cd_end returned to ZipArchive::new
    archive,          \* reader: the ZipArchive value, or the failure of open
    max_read,         \* reader: the most bytes one read call of the source delivers
    cursor,           \* reader: the source's seek position
    last,             \* reader: the last retrieval, its argument and its result
    out,              \* reader: what extract returned for the last retrieved file
    stream,           \* reader: the stream() in progress and the items it yielded
    path_in,          \* paths: a path string
    clean,            \* paths: the ZipPath made of it
    field_in,         \* fields: the bytes of a header field
    field_out         \* fields: what its decoder returned

vars ==
    <<overflow_checks, space, pattern, op, found, source, layout, pc, eocdr, archive,
      max_read, cursor, last, out, stream, path_in, clean, field_in, field_out>>

scannerVars == <<space, pattern, op, found>>
readerVars == <<source, layout, pc, eocdr, archive, max_read, cursor, last, out, stream>>
pathVars == <<path_in, clean>>
fieldVars == <<field_in, field_out>>

(***************************************************************************)
(* Bounds of the model.                                                    *)
(***************************************************************************)
MaxSpaceLen == 4
MaxPatLen == 3

\* The byte values haystacks and needles are drawn from.
Alphabet == {0, 1, 2}

RECURSIVE SeqsUpTo(_, _)
SeqsUpTo(S, n) ==
    IF n = 0 THEN {<<>>}
    ELSE LET shorter == SeqsUpTo(S, n - 1)
         IN shorter \cup {Append(s, x) : s \in {t \in shorter : Len(t) = n - 1}, x \in S}

(***************************************************************************)
(* Slices and usize arithmetic.                                            *)
(***************************************************************************)
At(s, i) == s[i + 1]

Slice(s, from, to) == SubSeq(s, from + 1, to)

\* a >= b on usize values, a wrapped value being negative in the model.
UGe(a, b) ==
    IF a < 0 /\ b >= 0 THEN TRUE
    ELSE IF a >= 0 /\ b < 0 THEN FALSE
    ELSE a >= b

Some(i) == [tag |-> "Some", idx |-> i, hits |-> <<>>]
None == [tag |-> "None", idx |-> 0, hits |-> <<>>]
Panic == [tag |-> "Panic", idx |-> 0, hits |-> <<>>]
Hits(v) == [tag |-> "Vec", idx |-> 0, hits |-> v]
Unset == [tag |-> "Unset", idx |-> 0, hits |-> <<>>]

(***************************************************************************)
(* The shift tables.  The table is collected into a HashMap from the       *)
(* needle's (byte, shift) pairs in index order, so the pair of the LAST    *)
(* index at which a byte occurs is the one kept.                           *)
(***************************************************************************)
InTable(pat, b) == \E i \in 1..Len(pat) : pat[i] = b

LastIndexOf(pat, b) ==
    CHOOSE i \in 0..(Len(pat) - 1) :
        /\ At(pat, i) = b
        /\ \A j \in (i + 1)..(Len(pat) - 1) : At(pat, j) # b

ForwardShift(pat, b) ==
    LET pat_len == Len(pat)
        offset == pat_len - 1
        idx == LastIndexOf(pat, b)
    IN IF idx = offset THEN pat_len ELSE pat_len - idx - 1

ReverseShift(pat, b) ==
    LET pat_len == Len(pat)
        idx == LastIndexOf(pat, b)
    IN IF idx = 0 THEN pat_len ELSE idx

(***************************************************************************)
(* FastSearch::search.                                                     *)
(***************************************************************************)
\* The comparison of the window ending at idx, from the needle's last byte
\* down to its first.
RECURSIVE ForwardCatch(_, _, _, _)
ForwardCatch(sp, pat, idx, sg_idx) ==
    IF sg_idx < 0 THEN "Exhausted"
    ELSE LET offset == Len(pat) - 1
             nxt == idx - (offset - sg_idx)
         IN IF nxt < 0 \/ nxt >= Len(sp) THEN "Panic"
            ELSE IF At(sp, nxt) = At(pat, sg_idx)
                 THEN IF sg_idx = 0 THEN "Match"
                      ELSE ForwardCatch(sp, pat, idx, sg_idx - 1)
                 ELSE "Mismatch"

\* One call of the find_map closure per element of the haystack (fuel).
RECURSIVE SearchLoop(_, _, _, _)
SearchLoop(sp, pat, idx0, fuel) ==
    IF fuel = 0 THEN None
    ELSE LET pat_len == Len(pat)
             space_len == Len(sp)
             offset == pat_len - 1
             idx == IF UGe(idx0, space_len) THEN space_len - 1 ELSE idx0
             b == At(sp, idx)
         IN IF InTable(pat, b)
            THEN LET hit == ForwardShift(pat, b)
                     catch == ForwardCatch(sp, pat, idx, offset)
                 IN CASE catch = "Match" -> Some(idx - offset)
                      [] catch = "Panic" -> Panic
                      [] OTHER ->
                            IF idx + hit >= space_len THEN None
                            ELSE SearchLoop(sp, pat, idx + hit, fuel - 1)
            ELSE IF idx + pat_len >= space_len THEN None
                 ELSE SearchLoop(sp, pat, idx + pat_len, fuel - 1)

search(sp, pat, checks) ==
    IF Len(pat) = 0 /\ checks THEN Panic
    ELSE SearchLoop(sp, pat, Len(pat) - 1, Len(sp))

(***************************************************************************)
(* FastSearch::rsearch.                                                    *)
(***************************************************************************)
\* The comparison of the window starting at idx, from the needle's first byte.
RECURSIVE ReverseCatch(_, _, _, _)
ReverseCatch(sp, pat, idx, sg_idx) ==
    IF sg_idx >= Len(pat) THEN "Exhausted"
    ELSE LET nxt == idx + sg_idx
         IN IF nxt < 0 \/ nxt >= Len(sp) THEN "Panic"
            ELSE IF At(sp, nxt) = At(pat, sg_idx)
                 THEN IF sg_idx = 0 THEN "Match"
                      ELSE ReverseCatch(sp, pat, idx, sg_idx + 1)
                 ELSE "Mismatch"

RECURSIVE RSearchLoop(_, _, _, _)
RSearchLoop(sp, pat, idx, fuel) ==
    IF fuel = 0 THEN None
    ELSE IF idx < 0 \/ idx >= Len(sp) THEN Panic
    ELSE LET pat_len == Len(pat)
             b == At(sp, idx)
         IN IF InTable(pat, b)
            THEN LET hit == ReverseShift(pat, b)
                     catch == ReverseCatch(sp, pat, idx, 0)
                 IN CASE catch = "Match" -> Some(idx)
                      [] catch = "Panic" -> Panic
                      [] OTHER ->
                            IF idx - hit >= 0
                            THEN RSearchLoop(sp, pat, idx - hit, fuel - 1)
                            ELSE None
            ELSE IF idx - pat_len >= 0
                 THEN RSearchLoop(sp, pat, idx - pat_len, fuel - 1)
                 ELSE None

rsearch(sp, pat, checks) ==
    IF Len(sp) = 0 THEN None
    ELSE IF Len(sp) - Len(pat) < 0 /\ checks THEN Panic
    ELSE RSearchLoop(sp, pat, Len(sp) - Len(pat), Len(sp))

(***************************************************************************)
(* FastSearch::search_all.                                                 *)
(***************************************************************************)
\* How far the scan moves on after a hit.
HitAdvanceOne(pat) == 1

HitAdvance(pat) == Len(pat)

RECURSIVE SearchAllLoop(_, _, _, _)
SearchAllLoop(sp, pat, idx, buffer) ==
    IF ~(idx >= 0 /\ Len(sp) > idx) THEN Hits(buffer)
    ELSE LET pat_len == Len(pat)
             offset == pat_len - 1
             b == At(sp, idx)
         IN IF InTable(pat, b)
            THEN LET hit == ForwardShift(pat, b)
                     miss == ForwardCatch(sp, pat, idx, offset)
                 IN CASE miss = "Match" ->
                            SearchAllLoop(sp, pat, idx + HitAdvance(pat),
                                          Append(buffer, idx - offset))
                      [] miss = "Panic" -> Panic
                      [] OTHER -> SearchAllLoop(sp, pat, idx + hit, buffer)
            ELSE SearchAllLoop(sp, pat, idx + pat_len, buffer)

search_all(sp, pat, checks) ==
    IF Len(pat) = 0 /\ checks THEN Panic
    ELSE IF Len(sp) = 0 THEN Hits(<<>>)
    ELSE SearchAllLoop(sp, pat, Len(pat) - 1, <<>>)

(***************************************************************************)
(* Wire integers.  A u16 is an integer; a u32 is two and a u64 four 16-bit *)
(* limbs, least significant first.                                         *)
(***************************************************************************)
U16Max == 65535
LimbBase == U16Max + 1

LE16(value, i) == At(value, i) + 256 * At(value, i + 1)
LE32(value, i) == <<LE16(value, i), LE16(value, i + 2)>>
LE64(value, i) == <<LE16(value, i), LE16(value, i + 2), LE16(value, i + 4), LE16(value, i + 6)>>

U32Max == <<U16Max, U16Max>>

\* `as u32` / `as u64` of a narrower unsigned value: zero extension.
Widen(limbs, n) == limbs \o [i \in 1..(n - Len(limbs)) |-> 0]

\* limbs + k modulo 2^(16 * Len(limbs)), and the carry out of the top limb.
RECURSIVE AddLimbs(_, _)
AddLimbs(limbs, k) ==
    IF Len(limbs) = 0 THEN <<>>
    ELSE <<(limbs[1] + k) % LimbBase>> \o AddLimbs(Tail(limbs), (limbs[1] + k) \div LimbBase)

RECURSIVE CarryOut(_, _)
CarryOut(limbs, k) ==
    IF Len(limbs) = 0 THEN k
    ELSE CarryOut(Tail(limbs), (limbs[1] + k) \div LimbBase)

\* The position a seek to SeekFrom::Start(limbs) leaves the source at.  Every
\* position of 2^16 or more is past the end of every source of the model, and
\* all positions past the end read alike, so they are kept as LimbBase.
SeekPos(limbs) ==
    IF \A i \in 2..Len(limbs) : limbs[i] = 0 THEN limbs[1] ELSE LimbBase

\* bitwise AND of two naturals
RECURSIVE BitAnd(_, _)
BitAnd(a, b) ==
    IF a = 0 \/ b = 0 THEN 0
    ELSE (a % 2) * (b % 2) + 2 * BitAnd(a \div 2, b \div 2)

(***************************************************************************)
(* Results, options and strings.  A String is its UTF-8 bytes.             *)
(***************************************************************************)
Ok(v) == [tag |-> "Ok", val |-> v]
Err(k) == [tag |-> "Err", kind |-> k]
Aborted == [tag |-> "Panic"]

SomeOf(v) == [some |-> TRUE, v |-> v]
NoneOf == [some |-> FALSE, v |-> <<>>]

IsCont(b) == b >= 128 /\ b <= 191

\* std's UTF-8 validation (String::from_utf8, read_to_string).
RECURSIVE IsUtf8(_)
IsUtf8(bytes) ==
    IF Len(bytes) = 0 THEN TRUE
    ELSE LET b == bytes[1]
             n == Len(bytes)
         IN IF b < 128 THEN IsUtf8(Tail(bytes))
            ELSE IF b >= 194 /\ b <= 223
                 THEN n >= 2 /\ IsCont(bytes[2]) /\ IsUtf8(SubSeq(bytes, 3, n))
            ELSE IF b >= 224 /\ b <= 239
                 THEN /\ n >= 3
                      /\ IsCont(bytes[2]) /\ IsCont(bytes[3])
                      /\ (b = 224 => bytes[2] >= 160)
                      /\ (b = 237 => bytes[2] <= 159)
                      /\ IsUtf8(SubSeq(bytes, 4, n))
            ELSE IF b >= 240 /\ b <= 244
                 THEN /\ n >= 4
                      /\ IsCont(bytes[2]) /\ IsCont(bytes[3]) /\ IsCont(bytes[4])
                      /\ (b = 240 => bytes[2] >= 144)
                      /\ (b = 244 => bytes[2] <= 143)
                      /\ IsUtf8(SubSeq(bytes, 5, n))
            ELSE FALSE

(***************************************************************************)
(* The source: AsyncRead + AsyncSeek over a byte sequence.                 *)
(***************************************************************************)
\* read_exact of n bytes at pos
ReadExact(src, pos, n) ==
    IF pos + n <= Len(src) THEN Ok(Slice(src, pos, pos + n)) ELSE Err("IO")

\* take(n).read_to_end at pos
ReadUpTo(src, pos, n) ==
    IF pos >= Len(src) THEN <<>>
    ELSE Slice(src, pos, IF pos + n <= Len(src) THEN pos + n ELSE Len(src))

(***************************************************************************)
(* Signatures (u32::to_le_bytes) and record sizes.                         *)
(***************************************************************************)
SIGNATURE_LENGTH == 4
Zip32Size == 18
Zip64Size == 52
LocatorSize == 16
EntrySize == 42
ZipFileSize == 26

\* 0x06054b50, 0x06064b50, 0x07064b50, 0x02014b50, 0x04034b50
Zip32Signature == <<80, 75, 5, 6>>
Zip64Signature == <<80, 75, 6, 6>>
LocatorSignature == <<80, 75, 6, 7>>
EntrySignature == <<80, 75, 1, 2>>
ZipFileSignature == <<80, 75, 3, 4>>

MAX_SIZE == SIGNATURE_LENGTH + (Zip32Size + U16Max)

(***************************************************************************)
(* The fixed-length end records (specs.rs).                                *)
(***************************************************************************)
Zip32CentralDirectoryEndRecord(value) ==
    [ disk_number |-> LE16(value, 0),
      central_directory_start_disk |-> LE16(value, 2),
      number_of_entries_in_disk |-> LE16(value, 4),
      number_of_entries |-> LE16(value, 6),
      central_directory_size |-> LE32(value, 8),
      central_directory_offset |-> LE32(value, 12),
      file_comment_length |-> LE16(value, 16) ]

Zip64CentralDirectoryEndRecord(value) ==
    [ version_made_by |-> LE16(value, 8),
      version_needed |-> LE16(value, 10),
      disk_number |-> LE32(value, 12),
      central_directory_start_disk |-> LE32(value, 16),
      number_of_entries_in_disk |-> LE64(value, 20),
      number_of_entries |-> LE64(value, 28),
      central_directory_size |-> LE64(value, 36),
      central_directory_offset |-> LE64(value, 44) ]

Zip64CentralDirectoryEndLocator(value) ==
    [ number_of_disk_with_zip64_central_directory_end |-> LE32(value, 0),
      relative_offset |-> LE64(value, 4),
      number_of_disks |-> LE32(value, 12) ]

(***************************************************************************)
(* ZipAsyncReadExt: the end of the central directory (read.rs).            *)
(***************************************************************************)
read_zip64_locator(src, pos) ==
    LET sig == ReadExact(src, pos, SIGNATURE_LENGTH)
    IN IF sig.tag # "Ok" THEN sig
       ELSE IF sig.val # LocatorSignature THEN Err("SignatureNotFound")
       ELSE LET body == ReadExact(src, pos + SIGNATURE_LENGTH, LocatorSize)
            IN IF body.tag # "Ok" THEN body
               ELSE Ok(Zip64CentralDirectoryEndLocator(body.val))

read_zip64_record(src, pos) ==
    LET sig == ReadExact(src, pos, SIGNATURE_LENGTH)
    IN IF sig.tag # "Ok" THEN sig
       ELSE IF sig.val # Zip64Signature THEN Err("SignatureNotFound")
       ELSE LET body == ReadExact(src, pos + SIGNATURE_LENGTH, Zip64Size)
            IN IF body.tag # "Ok" THEN body
               ELSE Ok(Zip64CentralDirectoryEndRecord(body.val))

\* Fallback 1: the ZIP64 end record's signature searched in the tail.
Zip64InBuffer(buffer, idx_64) ==
    LET idx == idx_64 + 4
    IN IF idx + Zip64Size > Len(buffer) THEN Aborted
       ELSE Ok(Zip64CentralDirectoryEndRecord(Slice(buffer, idx, idx + Zip64Size)))

\* Fallback 2: the locator's signature searched in the tail, then followed.
Zip64ByLocatorSearch(src, position, lidx, checks) ==
    LET body == ReadExact(src, lidx + 4 + position, LocatorSize)
    IN IF body.tag # "Ok" THEN body
       ELSE LET locator == Zip64CentralDirectoryEndLocator(body.val)
            IN IF CarryOut(locator.relative_offset, 4) > 0 /\ checks THEN Aborted
               ELSE LET rec == ReadExact(src, SeekPos(AddLimbs(locator.relative_offset, 4)),
                                         Zip64Size)
                    IN IF rec.tag # "Ok" THEN rec
                       ELSE Ok(Zip64CentralDirectoryEndRecord(rec.val))

\* Fallback 3: the locator assumed in the 20 bytes before the ZIP32 signature.
SlotBeforeZip32(idx_32) == idx_32 - 20

Zip64ByFixedSlot(src, position, idx_32, checks) ==
    LET slot == SlotBeforeZip32(idx_32)
    IN IF slot < 0 /\ checks THEN Aborted
       ELSE IF position + slot < 0 THEN Err("IO")
       ELSE LET locator == read_zip64_locator(src, position + slot)
            IN IF locator.tag # "Ok" THEN locator
               ELSE read_zip64_record(src, SeekPos(locator.val.relative_offset))

ResolveZip64(src, buffer, position, idx_32, checks) ==
    LET before == Slice(buffer, 0, idx_32)
        r64 == rsearch(before, Zip64Signature, checks)
    IN IF r64.tag = "Panic" THEN Aborted
       ELSE IF r64.tag = "Some" THEN Zip64InBuffer(buffer, r64.idx)
       ELSE LET rl == rsearch(before, LocatorSignature, checks)
            IN IF rl.tag = "Panic" THEN Aborted
               ELSE IF rl.tag = "Some"
                    THEN Zip64ByLocatorSearch(src, position, rl.idx, checks)
                    ELSE Zip64ByFixedSlot(src, position, idx_32, checks)

\* Whether the ZIP64 end record is the one to use.
NeedsZip64(zip32_record) ==
    \/ zip32_record.central_directory_size = U32Max
    \/ zip32_record.number_of_entries = U16Max

FromZip64(zip64_record, comment) ==
    [ version_made_by |-> SomeOf(zip64_record.version_made_by),
      version_needed |-> SomeOf(zip64_record.version_needed),
      disk_number |-> zip64_record.disk_number,
      central_directory_start_disk |-> zip64_record.central_directory_start_disk,
      number_of_entries_in_disk |-> zip64_record.number_of_entries_in_disk,
      number_of_entries |-> zip64_record.number_of_entries,
      central_directory_size |-> zip64_record.central_directory_size,
      central_directory_offset |-> zip64_record.central_directory_offset,
      comment |-> comment ]

FromZip32(zip32_record, comment) ==
    [ version_made_by |-> NoneOf,
      version_needed |-> NoneOf,
      disk_number |-> Widen(<<zip32_record.disk_number>>, 2),
      central_directory_start_disk |-> Widen(<<zip32_record.central_directory_start_disk>>, 2),
      number_of_entries_in_disk |-> Widen(<<zip32_record.number_of_entries_in_disk>>, 4),
      number_of_entries |-> Widen(<<zip32_record.number_of_entries>>, 4),
      central_directory_size |-> Widen(zip32_record.central_directory_size, 4),
      central_directory_offset |-> Widen(zip32_record.central_directory_offset, 4),
      comment |-> comment ]

\* The archive comment: up to file_comment_length bytes after the fixed record.
ReadComment(buffer, idx, zip32_record) ==
    IF zip32_record.file_comment_length > 0
    THEN LET string == ReadUpTo(buffer, idx + Zip32Size, zip32_record.file_comment_length)
         IN IF IsUtf8(string) THEN Ok(SomeOf(string)) ELSE Err("IO")
    ELSE Ok(NoneOf)

read_zip_cd_end(src, checks) ==
    LET length == Len(src)
        position == IF length >= MAX_SIZE THEN length - MAX_SIZE ELSE 0
        buffer == Slice(src, position, length)
        r32 == rsearch(buffer, Zip32Signature, checks)
    IN IF r32.tag = "Panic" THEN Aborted
       ELSE IF r32.tag = "None" THEN Err("SignatureNotFound")
       ELSE LET idx_32 == r32.idx
                idx == idx_32 + 4
            IN IF idx + Zip32Size > Len(buffer) THEN Aborted
               ELSE LET zip32_record ==
                            Zip32CentralDirectoryEndRecord(Slice(buffer, idx, idx + Zip32Size))
                        comment == ReadComment(buffer, idx, zip32_record)
                    IN IF comment.tag # "Ok" THEN comment
                       ELSE IF NeedsZip64(zip32_record)
                       THEN LET zip64_record ==
                                    ResolveZip64(src, buffer, position, idx_32, checks)
                            IN IF zip64_record.tag # "Ok" THEN zip64_record
                               ELSE Ok(FromZip64(zip64_record.val, comment.val))
                       ELSE Ok(FromZip32(zip32_record, comment.val))

(***************************************************************************)
(* Central-directory records (specs.rs, attribute.rs, compression.rs,      *)
(* datetime.rs, path.rs).                                                  *)
(***************************************************************************)
AttributeCompatibility(value) ==
    CASE value = 0 -> "MsDos"
      [] value = 3 -> "Unix"
      [] value = 10 -> "NTFS"
      [] OTHER -> "Unsupported"

Compression(value) ==
    CASE value = 0 -> "Stored"
      [] value = 8 -> "Deflate"
      [] value = 9 -> "Deflate64"
      [] value = 12 -> "Bzip2"
      [] value = 14 -> "Lzma"
      [] value = 93 -> "Zstd"
      [] value = 95 -> "Xz"
      [] OTHER -> "Unsupported"

GeneralPurposeFlag(value) ==
    [ encrypted |-> BitAnd(value, 1) = 1,
      data_drescriptor |-> BitAnd(value, 8) \div 8 = 1,
      utf8_required |-> BitAnd(value, 2048) \div 2048 = 1,
      central_directory_encrypted |-> BitAnd(value, 8192) \div 8192 = 1 ]

ZipDateTime(value) ==
    LET time == LE16(value, 0)
        date == LE16(value, 2)
    IN [ year |-> (BitAnd(date, 65024) \div 512) + 1980,
         month |-> (BitAnd(date, 480) \div 64) % 256,
         day |-> BitAnd(date, 31) % 256,
         hour |-> (BitAnd(time, 63488) \div 2048) % 256,
         minute |-> (BitAnd(time, 2022) \div 32) % 256,
         second |-> (BitAnd(time, 241) * 2) % 256 ]

\* mask!(expression, pattern)
Mask(expression, mask) == BitAnd(expression, mask) = mask

DefaultAttributes ==
    [ directory |-> FALSE, file |-> FALSE, symbolic |-> FALSE,
      owner |-> [read |-> FALSE, write |-> FALSE, execute |-> FALSE],
      group |-> [read |-> FALSE, write |-> FALSE, execute |-> FALSE],
      other |-> [read |-> FALSE, write |-> FALSE, execute |-> FALSE] ]

\* Attributes::from((u32, &AttributeCompatibility)); word is the u32's limbs.
Attributes(word, compatibility) ==
    IF compatibility = "Unix"
    THEN LET value == word[2]
             other_permissions == BitAnd(value, 7)
         IN [ directory |-> Mask(value, 16384),
              file |-> Mask(value, 32768),
              symbolic |-> Mask(value, 40960),
              owner |-> [read |-> Mask(value, 256), write |-> Mask(value, 128),
                         execute |-> Mask(value, 64)],
              group |-> [read |-> BitAnd(value, 32) = 32, write |-> BitAnd(value, 16) = 16,
                         execute |-> BitAnd(value, 8) = 8],
              other |-> [execute |-> BitAnd(other_permissions, 1) = 1,
                         read |-> BitAnd(other_permissions, 4) = 1,
                         write |-> BitAnd(other_permissions, 2) = 1] ]
    ELSE DefaultAttributes

\* ZipPath::from: the path string, no attributes attached.
ZipPath(string) == [inner |-> string, metadata |-> NoneOf]

\* ZipEntry::try_from(&[u8]); value starts at the record's signature.  An index
\* or a range past the end of value panics.
ZipEntryTryFrom(value) ==
    LET n == Len(value)
    IN IF n < 6 THEN Aborted
       ELSE IF AttributeCompatibility(At(value, 5)) = "Unsupported"
            THEN Err("AttributeCompatibilityNotSupported")
       ELSE IF n < 12 THEN Aborted
       ELSE IF Compression(LE16(value, 10)) = "Unsupported"
            THEN Err("CompressionNotSupported")
       ELSE IF n < 34 THEN Aborted
       ELSE LET filename_length == LE16(value, 28)
                extra_field_length == LE16(value, 30)
                comment_length == LE16(value, 32)
                start_idx == 46 + filename_length + extra_field_length
                end_idx == start_idx + comment_length
            IN IF n < 46 + filename_length THEN Aborted
               ELSE IF ~IsUtf8(Slice(value, 46, 46 + filename_length)) THEN Err("IO")
               ELSE IF comment_length > 0 /\ n < end_idx THEN Aborted
               ELSE IF comment_length > 0 /\ ~IsUtf8(Slice(value, start_idx, end_idx))
                    THEN Err("IO")
               ELSE Ok([ version_made_by |-> AttributeCompatibility(At(value, 5)),
                         version_needed |-> LE16(value, 6),
                         flags |-> GeneralPurposeFlag(LE16(value, 8)),
                         compression |-> Compression(LE16(value, 10)),
                         last_mod_datetime |-> ZipDateTime(Slice(value, 12, 16)),
                         crc32 |-> LE32(value, 16),
                         compressed_size |-> LE32(value, 20),
                         uncompressed_size |-> LE32(value, 24),
                         file_name |-> ZipPath(Slice(value, 46, 46 + filename_length)),
                         extra_field |-> NoneOf,
                         comment |-> IF comment_length > 0
                                     THEN SomeOf(Slice(value, start_idx, end_idx))
                                     ELSE NoneOf,
                         disk_start |-> LE16(value, 34),
                         internal_attribute |-> LE16(value, 36),
                         external_attribute |->
                             Attributes(LE32(value, 38), AttributeCompatibility(At(value, 5))),
                         file_header_offset |-> LE32(value, 42) ])

(***************************************************************************)
(* Extra fields (extra_field.rs).  A slice data[a..b] panics when a > b or *)
(* b > data.len().                                                         *)
(***************************************************************************)
ZIP64_EXTENDED_INFO_EXTRA_FIELD == 1
ZIP_UNICODE_COMMENT_INFO_EXTRA_FIELD == 25461
ZIP_UNICODE_PATH_INFO_EXTRA_FIELD == 28789

\* data[from..to] is in range
InRange(data, from, to) == from <= to /\ to <= Len(data)

\* Zip64ExtendedInfoExtraField::from_bytes: each value is taken when the
\* bytes for it are left, the sizes only when the 32-bit one is u32::MAX.
Zip64ExtendedInfoFromBytes(header_id, data, uncompressed_size, compressed_size) ==
    LET i0 == 0
        has_u == uncompressed_size = U32Max /\ Len(data) >= i0 + 8
        i1 == IF has_u THEN i0 + 8 ELSE i0
        has_c == compressed_size = U32Max /\ Len(data) >= i1 + 8
        i2 == IF has_c THEN i1 + 8 ELSE i1
        has_o == Len(data) >= i2 + 8
        i3 == IF has_o THEN i2 + 8 ELSE i2
        has_d == Len(data) >= i3 + 4
    IN Ok([ field |-> "Zip64ExtendedInfo",
            header_id |-> header_id,
            uncompressed_size |-> IF has_u THEN SomeOf(LE64(data, i0)) ELSE NoneOf,
            compressed_size |-> IF has_c THEN SomeOf(LE64(data, i1)) ELSE NoneOf,
            relative_header_offset |-> IF has_o THEN SomeOf(LE64(data, i2)) ELSE NoneOf,
            disk_start_number |-> IF has_d THEN SomeOf(LE32(data, i3)) ELSE NoneOf ])

\* The test that guards the version-1 body of a Unicode path record.
TooShort(data) == Len(data) < 5

\* The test that guards the version-1 body of a Unicode comment record.
TooLong(data) == Len(data) > 5

\* ZipUnicodeCommentInfoExtraField::from_bytes
ZipUnicodeCommentInfoFromBytes(data_size, data) ==
    IF Len(data) = 0 THEN Err("ZipUnicodeCommentExtraFieldInfoIncomplete")
    ELSE IF data[1] = 1
         THEN IF TooLong(data) THEN Err("ZipUnicodeCommentExtraFieldInfoIncomplete")
              ELSE IF ~InRange(data, 1, 5) \/ ~InRange(data, 5, data_size) THEN Aborted
              ELSE Ok([ field |-> "ZipUnicodeCommentInfo", version |-> "V1",
                        crc32 |-> LE32(data, 1), unicode |-> Slice(data, 5, data_size) ])
    ELSE IF ~InRange(data, 1, data_size) THEN Aborted
    ELSE Ok([ field |-> "ZipUnicodeCommentInfo", version |-> data[1],
              data |-> Slice(data, 1, data_size) ])

\* ZipUnicodePathInfoExtraField::from_bytes
ZipUnicodePathInfoFromBytes(data_size, data) ==
    IF Len(data) = 0 THEN Err("ZipUnicodePathInfoExtraFieldIncomplete")
    ELSE IF data[1] = 1
         THEN IF TooShort(data) THEN Err("ZipUnicodeCommentExtraFieldInfoIncomplete")
              ELSE IF ~InRange(data, 5, data_size) THEN Aborted
              ELSE Ok([ field |-> "ZipUnicodePathInfo", version |-> "V1",
                        crc32 |-> LE32(data, 1), unicode |-> Slice(data, 5, data_size) ])
    ELSE IF ~InRange(data, 1, data_size) THEN Aborted
    ELSE Ok([ field |-> "ZipUnicodePathInfo", version |-> data[1],
              data |-> Slice(data, 1, data_size) ])

\* ExtraField::from_bytes
ExtraFieldFromBytes(header_id, data_size, data, uncompressed_size, compressed_size) ==
    CASE header_id = ZIP64_EXTENDED_INFO_EXTRA_FIELD ->
            Zip64ExtendedInfoFromBytes(header_id, data, uncompressed_size, compressed_size)
      [] header_id = ZIP_UNICODE_COMMENT_INFO_EXTRA_FIELD ->
            ZipUnicodeCommentInfoFromBytes(data_size, data)
      [] header_id = ZIP_UNICODE_PATH_INFO_EXTRA_FIELD ->
            ZipUnicodePathInfoFromBytes(data_size, data)
      [] OTHER ->
            Ok([ field |-> "Unknown", header_id |-> header_id, data_size |-> data_size,
                 content |-> data ])

(***************************************************************************)
(* The entry map: IndexMap<ZipPath, ZipEntry> as a sequence of pairs in    *)
(* insertion order; keys are equal when their path strings are.            *)
(***************************************************************************)
IndexOfKey(map, key) ==
    IF \E i \in 1..Len(map) : map[i].key.inner = key.inner
    THEN CHOOSE i \in 1..Len(map) : map[i].key.inner = key.inner
    ELSE 0

\* map.extend([(name, entry)]): a new key is appended; an existing key keeps
\* its place and gets the new value.
MapInsert(map, name, entry) ==
    IF IndexOfKey(map, name) = 0
    THEN Append(map, [key |-> name, value |-> entry])
    ELSE [map EXCEPT ![IndexOfKey(map, name)].value = entry]

\* The while loop of read_zip_entry over the signature hits.
RECURSIVE WalkEntries(_, _, _)
WalkEntries(buffer, multi_idx, map) ==
    IF Len(multi_idx) = 0 THEN Ok(map)
    ELSE LET entry == ZipEntryTryFrom(Slice(buffer, multi_idx[1], Len(buffer)))
         IN IF entry.tag # "Ok" THEN entry
            ELSE WalkEntries(buffer, Tail(multi_idx),
                             MapInsert(map, entry.val.file_name, entry.val))

\* Vec::with_capacity(size as usize) panics ("capacity overflow") above
\* isize::MAX bytes; below that the allocation aborts the process when the
\* allocator refuses it (alloc_ok = FALSE), which it never does for the few
\* bytes of a central directory of the model.
CapacityOverflow(size) == size[4] >= 32768

AllocationFails(size, alloc_ok) ==
    CapacityOverflow(size) \/ (~alloc_ok /\ \E i \in 2..4 : size[i] # 0)

read_zip_entry(src, cd_end, checks, alloc_ok) ==
    LET size == cd_end.central_directory_size
        offset == cd_end.central_directory_offset
    IN IF AllocationFails(size, alloc_ok) THEN Aborted
       ELSE LET buffer == ReadUpTo(src, SeekPos(offset), SeekPos(size))
                multi_idx == search_all(buffer, EntrySignature, checks)
            IN IF multi_idx.tag # "Vec" THEN Aborted
               ELSE WalkEntries(buffer, multi_idx.hits, <<>>)

(***************************************************************************)
(* ZipArchive (lib.rs).                                                    *)
(***************************************************************************)
ZipArchiveNew(src, checks, alloc_ok) ==
    LET cd_end == read_zip_cd_end(src, checks)
    IN IF cd_end.tag # "Ok" THEN cd_end
       ELSE LET entries == read_zip_entry(src, cd_end.val, checks, alloc_ok)
            IN IF entries.tag # "Ok" THEN entries
               ELSE Ok([comment |-> cd_end.val.comment, entries |-> entries.val])

file_names(a) == [i \in 1..Len(a.entries) |-> a.entries[i].key]
len(a) == Len(a.entries)
is_empty(a) == Len(a.entries) = 0
comment(a) == a.comment

(***************************************************************************)
(* Paths (path.rs) on a Unix host: '/' separates components.               *)
(***************************************************************************)
Slash == <<47>>
CurDir == <<46>>
ParentDir == <<46, 46>>

\* The segments of a string between its '/' bytes.
RECURSIVE SplitOn(_, _, _)
SplitOn(string, sep, segment) ==
    IF Len(string) = 0 THEN <<segment>>
    ELSE IF string[1] = sep THEN <<segment>> \o SplitOn(Tail(string), sep, <<>>)
    ELSE SplitOn(Tail(string), sep, Append(segment, string[1]))

\* Path::components(): a leading '/' is RootDir, a leading "." is CurDir,
\* empty segments and every other "." are skipped, ".." is ParentDir, the
\* rest are Normal.
Components(string) ==
    LET segments == SplitOn(string, 47, <<>>)
        rooted == Len(string) > 0 /\ string[1] = 47
        Kept(i) == /\ segments[i] # <<>>
                   /\ (segments[i] = CurDir => i = 1)
        indices == {i \in 1..Len(segments) : Kept(i)}
        RECURSIVE Collect(_)
        Collect(i) == IF i > Len(segments) THEN <<>>
                      ELSE (IF i \in indices THEN <<segments[i]>> ELSE <<>>) \o Collect(i + 1)
    IN (IF rooted THEN <<Slash>> ELSE <<>>) \o Collect(1)

IsNotRoot(component) == component # Slash

\* matches!(c, Component::Normal(_))
IsNormal(component) == component \notin {Slash, CurDir, ParentDir}

\* PathBuf::push
Push(buf, component) ==
    IF component = Slash THEN Slash
    ELSE IF Len(buf) > 0 /\ buf[Len(buf)] # 47 THEN buf \o Slash \o component
    ELSE buf \o component

\* PathBuf::extend / collect: push the components in order.
RECURSIVE PushAll(_, _)
PushAll(buf, components) ==
    IF Len(components) = 0 THEN buf
    ELSE PushAll(Push(buf, components[1]), Tail(components))

\* ZipPath::new()
ZipPathNew == [inner |-> <<>>, metadata |-> NoneOf]

\* ZipPath::append
append(path, string) == [path EXCEPT !.inner = PushAll(path.inner, Components(string))]

\* Sanitize for ZipPath
sanitize(path) ==
    [path EXCEPT !.inner = PushAll(<<>>, SelectSeq(Components(path.inner), IsNormal))]

\* ZipPath::is_dir, ZipPath::is_file
PathIsDir(path) == IF path.metadata.some THEN path.metadata.v.directory ELSE FALSE
PathIsFile(path) == IF path.metadata.some THEN path.metadata.v.file ELSE FALSE

(***************************************************************************)
(* Retrieval (read.rs read_zipfile, lib.rs file_by_name, file_by_index,    *)
(* stream).  A retrieval returns its result and the seek position it       *)
(* leaves the source at.  chunk is the most bytes one read call of the     *)
(* source delivers; read_exact and read_to_end call read until done.       *)
(***************************************************************************)
Min(a, b) == IF a <= b THEN a ELSE b

Done(result, position) == [res |-> result, pos |-> position]

\* self.read(&mut buffer): one read call into a zeroed buffer of n bytes.
ReadOnce(src, pos, n, chunk) ==
    LET got == IF pos >= Len(src) THEN 0 ELSE Min(Min(n, chunk), Len(src) - pos)
    IN [buffer |-> Slice(src, pos, pos + got) \o [i \in 1..(n - got) |-> 0], got |-> got]

\* What a retrieval would do if it read on from where the source stands.
SeekNowhere(pos, offset) == pos

\* seek(SeekFrom::Start(offset))
SeekStart(pos, offset) == SeekPos(offset)

\* A reader that takes any four bytes for a local header.
SignatureIgnored(signature) == TRUE

\* signature != ZipFile::SIGNATURE, negated
SignatureMatches(signature) == signature = ZipFileSignature

read_zipfile(src, pos, chunk, alloc_ok) ==
    LET signature == ReadExact(src, pos, SIGNATURE_LENGTH)
    IN IF signature.tag # "Ok" THEN Done(signature, Len(src))
       ELSE IF ~SignatureMatches(signature.val)
            THEN Done(Err("SignatureNotFound"), pos + SIGNATURE_LENGTH)
       ELSE LET header == ReadOnce(src, pos + SIGNATURE_LENGTH, ZipFileSize, chunk)
                buffer == header.buffer
                at_name == pos + SIGNATURE_LENGTH + header.got
                compressed_size == LE32(buffer, 14)
                name == ReadUpTo(src, at_name, LE16(buffer, 22))
                at_extra == at_name + Len(name)
                extra == ReadUpTo(src, at_extra, LE16(buffer, 24))
                at_data == at_extra + Len(extra)
                data == ReadUpTo(src, at_data, SeekPos(compressed_size))
            IN IF Compression(LE16(buffer, 4)) = "Unsupported"
               THEN Done(Err("CompressionNotSupported"), at_name)
               ELSE IF ~IsUtf8(name) THEN Done(Err("IO"), at_extra)
               ELSE IF AllocationFails(Widen(compressed_size, 4), alloc_ok)
                    THEN Done(Aborted, at_data)
               ELSE Done(Ok([ version_needed |-> LE16(buffer, 0),
                              flags |-> GeneralPurposeFlag(LE16(buffer, 2)),
                              compression |-> Compression(LE16(buffer, 4)),
                              last_mod_datetime |-> ZipDateTime(Slice(buffer, 6, 10)),
                              crc32 |-> LE32(buffer, 10),
                              compressed_size |-> compressed_size,
                              uncompressed_size |-> LE32(buffer, 18),
                              file_name |-> sanitize(append(ZipPathNew, name)),
                              extra_field |-> NoneOf,
                              data |-> data ]),
                         at_data + Len(data))

\* The part file_by_name, file_by_index and a stream step share: seek to the
\* entry's local header, read it, copy the entry's path attributes.
Retrieve(src, pos, entry, chunk, alloc_ok) ==
    LET offset == Widen(entry.file_header_offset, 4)
        file == read_zipfile(src, SeekStart(pos, offset), chunk, alloc_ok)
    IN IF file.res.tag # "Ok" THEN file
       ELSE Done(Ok([file.res.val EXCEPT !.file_name.metadata = entry.file_name.metadata]),
                 file.pos)

file_by_name(a, src, pos, path, chunk, alloc_ok) ==
    LET key == ZipPath(path)
    IN IF IndexOfKey(a.entries, key) = 0 THEN Done(Err("InvalidArchive"), pos)
       ELSE Retrieve(src, pos, a.entries[IndexOfKey(a.entries, key)].value, chunk, alloc_ok)

\* A lookup that takes the first entry whatever the index.
file_by_first_index(a, src, pos, index, chunk, alloc_ok) ==
    IF index >= Len(a.entries) THEN Done(Err("InvalidArchive"), pos)
    ELSE Retrieve(src, pos, a.entries[1].value, chunk, alloc_ok)

file_by_index(a, src, pos, index, chunk, alloc_ok) ==
    IF index >= Len(a.entries) THEN Done(Err("InvalidArchive"), pos)
    ELSE Retrieve(src, pos, a.entries[index + 1].value, chunk, alloc_ok)

\* The map walked from its last entry to its first.
StreamEntryReversed(a, k) == a.entries[Len(a.entries) - k].value

\* The entry the k-th step of stream() retrieves: the map in its own order.
StreamEntry(a, k) == a.entries[k + 1].value

\* ZipFile::is_dir, ZipFile::is_file
is_dir(file) == PathIsDir(file.file_name)
is_file(file) == PathIsFile(file.file_name)

(***************************************************************************)
(* Extraction (lib.rs ZipFile::extract, compression.rs Decode).  The       *)
(* decoders are the async_compression crate's; of them the model has the   *)
(* DEFLATE decoder on streams of stored blocks (RFC 1951, BTYPE = 00):     *)
(* a header byte with BFINAL in bit 0, LEN, NLEN = not LEN, LEN bytes.     *)
(* What a decoder makes of any other stream is left open (Undecoded).      *)
(***************************************************************************)
Undecoded == [tag |-> "Undecoded"]

RECURSIVE Inflate(_, _)
Inflate(data, produced) ==
    IF Len(data) = 0 THEN Undecoded
    ELSE LET bfinal == data[1] % 2
             btype == (data[1] \div 2) % 4
             length == LE16(data, 1)
         IN IF btype = 3 THEN Err("IO")
            ELSE IF btype # 0 \/ Len(data) < 5 THEN Undecoded
            ELSE IF length + LE16(data, 3) # U16Max THEN Err("IO")
            ELSE IF Len(data) < 5 + length THEN Undecoded
            ELSE IF bfinal = 1 THEN Ok(produced \o Slice(data, 5, 5 + length))
            ELSE Inflate(Slice(data, 5 + length, Len(data)),
                         produced \o Slice(data, 5, 5 + length))

\* Decode::decode(data, size): the buffer is allocated with capacity size and
\* filled by read_to_end of the decoder.
decode(data, size, alloc_ok) ==
    IF AllocationFails(Widen(size, 4), alloc_ok) THEN Aborted ELSE Inflate(data, <<>>)

extract(file, alloc_ok) ==
    CASE file.compression = "Stored" -> Ok(file.data)
      [] file.compression \in {"Deflate", "Deflate64"} ->
            decode(file.data, file.uncompressed_size, alloc_ok)
      [] OTHER -> Undecoded

(***************************************************************************)
(* The sources the reader is run on.  A layout says how a source is laid   *)
(* out; Serialize gives its bytes in the wire format the parsers read.     *)
(***************************************************************************)
MaxFiles == 1
MaxRawLen == 5
PadLen == 10

B16(v) == <<v % 256, v \div 256>>
B32(n) == B16(n % LimbBase) \o B16(n \div LimbBase)
B64(n) == B32(n) \o <<0, 0, 0, 0>>

Zeros(n) == [i \in 1..n |-> 0]

\* "a", "b", "d/", "x", "c"
NameA == <<97>>
NameB == <<98>>
NameDir == <<100, 47>>
NameX == <<120>>

\* One file of an archive: its name, stored payload, CRC-32 bytes, host,
\* Unix mode and central-directory comment.
File(name, data, crc, host, mode, note) ==
    [name |-> name, data |-> data, crc |-> crc, host |-> host, mode |-> mode,
     comment |-> note,
     \* the local header: its signature, name, and declared sizes; the method
     \* code of both headers
     lsig |-> ZipFileSignature, lname |-> name, method |-> 0,
     csize |-> Len(data), usize |-> Len(data),
     \* the general-purpose flags of both headers; whether the sizes and the
     \* CRC follow the payload in a data descriptor, the local header holding
     \* zeros; whether the 32-bit sizes and offset are the ZIP64 sentinel, the
     \* values standing in a ZIP64 extended-information extra field
     flags |-> 0, descriptor |-> FALSE, zip64 |-> FALSE]

\* 0xFFFFFFFF
Sentinel32 == <<255, 255, 255, 255>>

\* The data descriptor after a payload: signature, CRC-32, sizes.
DataDescriptor(f) ==
    IF f.descriptor THEN <<80, 75, 7, 8>> \o f.crc \o B32(f.csize) \o B32(f.usize) ELSE <<>>

\* The ZIP64 extended-information extra field (header ID 0x0001) of a local
\* header: uncompressed and compressed size.
LocalExtra(f) ==
    IF f.zip64 THEN B16(1) \o B16(16) \o B64(f.usize) \o B64(f.csize) ELSE <<>>

\* The same of a central-directory record: the sizes and the offset of the
\* local header.
CentralExtra(f, offset) ==
    IF f.zip64 THEN B16(1) \o B16(24) \o B64(f.usize) \o B64(f.csize) \o B64(offset) ELSE <<>>

LocalHeader(f) ==
    f.lsig \o B16(20) \o B16(f.flags) \o B16(f.method) \o B16(0) \o B16(33)
        \o (IF f.descriptor THEN Zeros(12)
            ELSE IF f.zip64 THEN f.crc \o Sentinel32 \o Sentinel32
            ELSE f.crc \o B32(f.csize) \o B32(f.usize))
        \o B16(Len(f.lname)) \o B16(Len(LocalExtra(f))) \o f.lname \o LocalExtra(f)
        \o f.data \o DataDescriptor(f)

CentralRecord(f, offset) ==
    EntrySignature \o <<20, f.host>> \o B16(20) \o B16(f.flags) \o B16(f.method)
        \o B16(0) \o B16(33) \o f.crc
        \o (IF f.zip64 THEN Sentinel32 \o Sentinel32 ELSE B32(f.csize) \o B32(f.usize))
        \o B16(Len(f.name)) \o B16(Len(CentralExtra(f, offset))) \o B16(Len(f.comment))
        \o B16(0) \o B16(0) \o B16(0) \o B16(f.mode)
        \o (IF f.zip64 THEN Sentinel32 ELSE B32(offset))
        \o f.name \o CentralExtra(f, offset) \o f.comment

\* A central-directory comment that holds the bytes of a whole record, "x".
EmbeddedRecord == CentralRecord(File(NameX, <<>>, Zeros(4), 0, 0, <<>>), 0)

FileA == File(NameA, <<0, 1, 2, 3>>, <<17, 34, 51, 68>>, 3, 33188, <<>>)
FileB == File(NameB, <<7>>, <<1, 2, 3, 4>>, 0, 0, <<99>>)
FileDir == File(NameDir, <<>>, Zeros(4), 3, 16877, <<>>)
FileA2 == File(NameA, <<9, 9>>, <<5, 6, 7, 8>>, 3, 33188, <<>>)
FileEmbedding == File(NameB, <<>>, Zeros(4), 3, 33188, EmbeddedRecord)

\* "b", whose central-directory comment holds the bytes of a record named "a".
FileShadowing ==
    File(NameB, <<>>, Zeros(4), 3, 33188,
         CentralRecord(File(NameA, <<>>, Zeros(4), 0, 0, <<>>), 0))

\* The files of the layouts that exercise the end records.
BaseFiles == {FileA, FileB, FileDir, FileA2, FileEmbedding}

\* A DEFLATE stream of one final stored block.
StoredBlock(bytes) == <<1>> \o B16(Len(bytes)) \o B16(U16Max - Len(bytes)) \o bytes

\* "e": the local header's signature is wrong.
FileBadSignature ==
    [File(<<101>>, <<5>>, <<2, 2, 2, 2>>, 3, 33188, <<>>) EXCEPT !.lsig = <<80, 75, 3, 5>>]
\* "t": the headers declare more payload bytes than the source holds.
FileTruncated ==
    [File(<<116>>, <<6, 6>>, <<3, 3, 3, 3>>, 3, 33188, <<>>) EXCEPT !.csize = 1000, !.usize = 1000]
\* "z": deflated, three bytes.
FileDeflated ==
    [File(<<122>>, StoredBlock(<<1, 2, 3>>), <<4, 4, 4, 4>>, 3, 33188, <<>>)
        EXCEPT !.method = 8, !.usize = 3]
\* "y": deflated, the stream holds three bytes and the headers declare five.
FileDeflatedShort ==
    [File(<<121>>, StoredBlock(<<1, 2, 3>>), <<5, 5, 5, 5>>, 3, 33188, <<>>)
        EXCEPT !.method = 8, !.usize = 5]
\* "p": the local header names it "../p".
FileTraversal ==
    [File(<<112>>, <<8>>, <<6, 6, 6, 6>>, 3, 33188, <<>>) EXCEPT !.lname = <<46, 46, 47, 112>>]
\* "s": stored, two bytes, the headers declare three uncompressed bytes.
FileStoredMismatch ==
    [File(<<115>>, <<4, 4>>, <<7, 7, 7, 7>>, 3, 33188, <<>>) EXCEPT !.usize = 3]

\* "k": written by a streaming producer, the sizes follow the payload.
FileDescriptor ==
    [File(<<107>>, <<8, 8, 8>>, <<8, 7, 6, 5>>, 3, 33188, <<>>)
        EXCEPT !.flags = 8, !.descriptor = TRUE]
\* "l": the 32-bit sizes and offset are the sentinel, the values stand in the
\* ZIP64 extra field.
FileZip64 ==
    [File(<<108>>, <<9, 8>>, <<9, 9, 9, 9>>, 3, 33188, <<>>) EXCEPT !.zip64 = TRUE]
\* "n": the local header names it "m".
FileRenamed ==
    [File(<<110>>, <<3>>, <<3, 1, 3, 1>>, 3, 33188, <<>>) EXCEPT !.lname = <<109>>]
\* "u": its central-directory comment is the first six bytes of a record,
\* the last bytes of the central directory.
FileStub ==
    File(<<117>>, <<>>, Zeros(4), 3, 33188, EntrySignature \o <<20, 3>>)

FileChoices ==
    BaseFiles \cup {FileBadSignature, FileTruncated, FileDeflated, FileDeflatedShort,
                    FileTraversal, FileStoredMismatch,
                    FileDescriptor, FileZip64, FileRenamed, FileStub}

\* Directories of several files: a path that occurs twice, with another path
\* around it; a directory and a file; a file that cannot be retrieved before
\* one that can.
Directories ==
    { <<FileA, FileA2>>, <<FileA, FileB, FileA2>>, <<FileB, FileA, FileA2>>,
      <<FileA, FileA2, FileB>>, <<FileA, FileA2, FileA>>,
      <<FileDir, FileA>>, <<FileBadSignature, FileA>>, <<FileA, FileEmbedding>>,
      <<FileA, FileA2, FileShadowing>> }

\* "", "c", "ok", "Pack", "archive-comment!", and a byte that is not UTF-8
Comments ==
    { <<>>, <<99>>, <<111, 107>>, <<80, 97, 99, 107>>,
      <<97, 114, 99, 104, 105, 118, 101, 45, 99, 111, 109, 109, 101, 110, 116, 33>>,
      <<255>> }

RECURSIVE LocalsBytes(_)
LocalsBytes(files) ==
    IF Len(files) = 0 THEN <<>>
    ELSE LocalHeader(files[1]) \o LocalsBytes(Tail(files))

RECURSIVE CentralBytes(_, _)
CentralBytes(files, offset) ==
    IF Len(files) = 0 THEN <<>>
    ELSE CentralRecord(files[1], offset)
            \o CentralBytes(Tail(files), offset + Len(LocalHeader(files[1])))

CdOffset(l) == l.pad + Len(LocalsBytes(l.files))
CdSize(l) == Len(CentralBytes(l.files, l.pad))

Zip64RecordBytes(l) ==
    Zip64Signature \o B64(44) \o B16(45) \o B16(45) \o B32(0) \o B32(0)
        \o B64(Len(l.files)) \o B64(Len(l.files)) \o B64(CdSize(l)) \o B64(CdOffset(l))

LocatorBytes(l) ==
    LocatorSignature \o B32(0) \o B64(CdOffset(l) + CdSize(l)) \o B32(1)

Zip32RecordBytes(l) ==
    Zip32Signature \o B16(0) \o B16(0)
        \o (IF l.sentinel = "entries" THEN B16(U16Max) \o B16(U16Max)
            ELSE B16(Len(l.files)) \o B16(Len(l.files)))
        \o (IF l.sentinel = "size" THEN B16(U16Max) \o B16(U16Max) ELSE B32(CdSize(l)))
        \o (IF l.sentinel = "offset" THEN B16(U16Max) \o B16(U16Max) ELSE B32(CdOffset(l)))
        \o B16(Len(l.comment)) \o l.comment

Serialize(l) ==
    IF l.kind = "raw" THEN l.bytes
    ELSE Zeros(l.pad) \o LocalsBytes(l.files) \o CentralBytes(l.files, l.pad)
            \o (IF l.zip64 \in {"full", "record_only"} THEN Zip64RecordBytes(l) ELSE <<>>)
            \o (IF l.zip64 = "full" THEN LocatorBytes(l) ELSE <<>>)
            \o Zip32RecordBytes(l)

\* Which ZIP64 structures a layout holds, with which sentinel in the ZIP32 record.
Zip64Shapes ==
    { <<"none", "none">>, <<"full", "none">>, <<"full", "entries">>, <<"full", "size">>,
      <<"full", "offset">>,
      <<"record_only", "entries">>, <<"record_only", "size">>,
      <<"missing", "entries">>, <<"missing", "size">> }

RawLayouts == {[kind |-> "raw", bytes |-> b] : b \in SeqsUpTo({0, 80}, MaxRawLen)}

\* Layouts that vary the end records over at most one file, and layouts
\* that vary the files under a plain ZIP32 end record.
EndShapes ==
    {s \in Comments \X Zip64Shapes : s[2][1] = "none" \/ Len(s[1]) \in {0, 16}}

EndLayouts ==
    { [kind |-> "zip", pad |-> p, files |-> fs, comment |-> s[1],
       zip64 |-> s[2][1], sentinel |-> s[2][2]] :
        p \in {0, PadLen}, fs \in SeqsUpTo(BaseFiles, 1), s \in EndShapes }

FileLayouts ==
    { [kind |-> "zip", pad |-> 0, files |-> fs, comment |-> <<>>,
       zip64 |-> "none", sentinel |-> "none"] :
        fs \in SeqsUpTo(FileChoices, MaxFiles) \cup Directories }

ZipLayouts == EndLayouts \cup FileLayouts

Layouts == RawLayouts \cup ZipLayouts

(***************************************************************************)
(* The scanner as a state machine: an input is drawn, then one of the      *)
(* three operations is applied to it.                                      *)
(***************************************************************************)
\* The inputs of the crate's own tests (reverse_search, search,
\* search_multiple).
TestInputs ==
    { <<(<<0, 1, 2, 3, 4, 5, 6, 7, 6, 9, 5, 6, 7, 8>>), (<<5>>)>>,
      <<(<<0, 8, 2, 3, 4, 0, 6, 0, 8, 9, 10, 0, 12, 0, 8, 15>>), (<<0, 8>>)>> }

ScanInputs ==
    (SeqsUpTo(Alphabet, MaxSpaceLen) \X SeqsUpTo(Alphabet, MaxPatLen)) \cup TestInputs

NoLayout == [kind |-> "none"]
NoArchive == [tag |-> "none"]
NoCall == [op |-> "none"]
NoOutput == [tag |-> "none"]
NoStream == [active |-> FALSE]
NoPath == [inner |-> <<>>, metadata |-> NoneOf, made |-> FALSE]

\* The reader's variables while no archive is in use.
ReaderIdle ==
    /\ source = <<>>
    /\ layout = NoLayout
    /\ pc = "idle"
    /\ eocdr = NoArchive
    /\ archive = NoArchive
    /\ max_read = 0
    /\ cursor = 0
    /\ last = NoCall
    /\ out = NoOutput
    /\ stream = NoStream

ScannerIdle == space = <<>> /\ pattern = <<>> /\ op = "none" /\ found = Unset

PathIdle == path_in = <<>> /\ clean = NoPath

NoField == [kind |-> "none"]
FieldIdle == field_in = NoField /\ field_out = NoField

ScanInit ==
    /\ overflow_checks \in BOOLEAN
    /\ \E in \in ScanInputs : space = in[1] /\ pattern = in[2]
    /\ op = "none"
    /\ found = Unset
    /\ ReaderIdle
    /\ PathIdle
    /\ FieldIdle

Search ==
    /\ op = "none"
    /\ op' = "search"
    /\ found' = search(space, pattern, overflow_checks)
    /\ UNCHANGED <<overflow_checks, space, pattern, readerVars, pathVars, fieldVars>>

RSearch ==
    /\ op = "none"
    /\ op' = "rsearch"
    /\ found' = rsearch(space, pattern, overflow_checks)
    /\ UNCHANGED <<overflow_checks, space, pattern, readerVars, pathVars, fieldVars>>

SearchAll ==
    /\ op = "none"
    /\ op' = "search_all"
    /\ found' = search_all(space, pattern, overflow_checks)
    /\ UNCHANGED <<overflow_checks, space, pattern, readerVars, pathVars, fieldVars>>

ScanNext == Search \/ RSearch \/ SearchAll

SpecScan == ScanInit /\ [][ScanNext]_vars

(***************************************************************************)
(* Paths as a state machine: a string is drawn, then made a ZipPath by     *)
(* sanitize or by read_to_zip_path.                                        *)
(***************************************************************************)
MaxPathLen == 4

\* '/', '.', 'a'
PathAlphabet == {47, 46, 97}

\* "../etc/passwd"
EtcPasswd == <<46, 46, 47, 101, 116, 99, 47, 112, 97, 115, 115, 119, 100>>

PathInputs == SeqsUpTo(PathAlphabet, MaxPathLen) \cup {EtcPasswd}

PathInit ==
    /\ overflow_checks \in BOOLEAN
    /\ path_in \in PathInputs
    /\ clean = NoPath
    /\ ScannerIdle
    /\ ReaderIdle
    /\ FieldIdle

\* The path an operation produced, recorded as the model's result.
Made(path) == [inner |-> path.inner, metadata |-> path.metadata, made |-> TRUE]

\* ZipPath::from(string).sanitize()
SanitizePath ==
    /\ op = "none"
    /\ op' = "sanitize"
    /\ clean' = Made(sanitize(ZipPath(path_in)))
    /\ UNCHANGED <<overflow_checks, space, pattern, found, path_in, readerVars, fieldVars>>

\* read_to_zip_path(&mut ZipPath::new()) on a reader that yields the string
ReadToZipPath ==
    /\ op = "none"
    /\ op' = "read_to_zip_path"
    /\ clean' = Made(sanitize(append(ZipPathNew, path_in)))
    /\ UNCHANGED <<overflow_checks, space, pattern, found, path_in, readerVars, fieldVars>>

PathNext == SanitizePath \/ ReadToZipPath

SpecPath == PathInit /\ [][PathNext]_vars

(***************************************************************************)
(* Header fields as a state machine: the bytes of an MS-DOS time and date, *)
(* an external-attribute word with its host, or an extra-field record are  *)
(* drawn, then decoded.                                                    *)
(***************************************************************************)
\* The time and date words of an image: hour, minute, second / 2 and year
\* - 1980, month, day, out-of-range values included.
TimeWords ==
    {h * 2048 + m * 32 + s2 : h \in {0, 23}, m \in {0, 59, 63}, s2 \in {0, 1, 29, 31}}
DateWords ==
    {y * 512 + m * 32 + d : y \in {0, 44, 127}, m \in {0, 1, 12, 15}, d \in {1, 31}}

DateTimeInputs ==
    {[kind |-> "datetime", bytes |-> B16(t) \o B16(d)] : t \in TimeWords, d \in DateWords}

\* Unix modes: no type, directory, regular file, symbolic link, with each
\* permission bit alone, none, 0o644, 0o755 and 0o777.
Modes ==
    {t + perm : t \in {0, 16384, 32768, 40960},
                perm \in {0, 1, 2, 4, 8, 16, 32, 64, 128, 256, 420, 493, 511}}

\* External-attribute words: the mode in the high 16 bits, nothing or the
\* MS-DOS directory bit in the low ones.
AttributeInputs ==
    {[kind |-> "attributes", word |-> <<low, mode>>, host |-> host] :
        low \in {0, 16}, mode \in Modes, host \in {"MsDos", "Unix", "NTFS"}}

\* The first n of the bytes 1..28.
Ramp(n) == [i \in 1..n |-> i]

\* The bodies of extra-field records: version 1 and version 2 bodies of 1 to
\* 7 bytes, the empty body, and bodies that hold 64-bit values.
ExtraBodies ==
    {SubSeq(<<1, 17, 34, 51, 68, 104, 105>>, 1, n) : n \in 0..7}
        \cup {SubSeq(<<2, 17, 34, 51, 68, 104, 105>>, 1, n) : n \in 1..7}
        \cup {Ramp(n) : n \in {8, 16, 24, 28}}

\* The header IDs of the three records ExtraField knows and of one it does
\* not (0x5455, the extended timestamp).
HeaderIds ==
    {ZIP64_EXTENDED_INFO_EXTRA_FIELD, ZIP_UNICODE_COMMENT_INFO_EXTRA_FIELD,
     ZIP_UNICODE_PATH_INFO_EXTRA_FIELD, 21589}

ExtraInputs ==
    {[kind |-> "extra", header_id |-> id, data_size |-> Len(body) + more, data |-> body,
      uncompressed_size |-> sizes[1], compressed_size |-> sizes[2]] :
        id \in HeaderIds, body \in ExtraBodies, more \in {0, 1},
        sizes \in {<<U32Max, U32Max>>, <<(<<3, 0>>), U32Max>>, <<(<<3, 0>>), (<<3, 0>>)>>}}

FieldInputs == DateTimeInputs \cup AttributeInputs \cup ExtraInputs

FieldInit ==
    /\ overflow_checks \in BOOLEAN
    /\ field_in \in FieldInputs
    /\ field_out = NoField
    /\ ScannerIdle
    /\ ReaderIdle
    /\ PathIdle

\* ZipDateTime::try_from([u8; 4])
DecodeDateTime ==
    /\ op = "none"
    /\ field_in.kind = "datetime"
    /\ op' = "ZipDateTime::try_from"
    /\ field_out' = Ok(ZipDateTime(field_in.bytes))
    /\ UNCHANGED <<overflow_checks, space, pattern, found, field_in, readerVars, pathVars>>

\* Attributes::from((u32, &AttributeCompatibility))
DecodeAttributes ==
    /\ op = "none"
    /\ field_in.kind = "attributes"
    /\ op' = "Attributes::from"
    /\ field_out' = Ok(Attributes(field_in.word, field_in.host))
    /\ UNCHANGED <<overflow_checks, space, pattern, found, field_in, readerVars, pathVars>>

\* ExtraField::from_bytes(header_id, data_size, data, uncompressed_size,
\* compressed_size)
DecodeExtraField ==
    /\ op = "none"
    /\ field_in.kind = "extra"
    /\ op' = "ExtraField::from_bytes"
    /\ field_out' = ExtraFieldFromBytes(field_in.header_id, field_in.data_size, field_in.data,
                                        field_in.uncompressed_size, field_in.compressed_size)
    /\ UNCHANGED <<overflow_checks, space, pattern, found, field_in, readerVars, pathVars>>

FieldNext == DecodeDateTime \/ DecodeAttributes \/ DecodeExtraField

SpecFields == FieldInit /\ [][FieldNext]_vars

(***************************************************************************)
(* The reader as a state machine: a source is drawn and opened; entries    *)
(* are then retrieved by index, by name or through a stream, retrievals    *)
(* are cancelled, and retrieved files are extracted.                       *)
(***************************************************************************)
ShortRead == 16

\* A name no file of the model has: "q".
NameUnknown == <<113>>

Init ==
    /\ overflow_checks \in BOOLEAN
    /\ layout \in Layouts
    /\ source = Serialize(layout)
    /\ max_read \in {ZipFileSize, ShortRead}
    /\ pc = "closed"
    /\ eocdr = NoArchive
    /\ archive = NoArchive
    /\ cursor = 0
    /\ last = NoCall
    /\ out = NoOutput
    /\ stream = NoStream
    /\ ScannerIdle
    /\ PathIdle
    /\ FieldIdle

\* Where a successful open leaves the source: after the central directory.
OpenPos(src, cd_end) ==
    Min(Len(src),
        SeekPos(cd_end.central_directory_offset) + SeekPos(cd_end.central_directory_size))

\* ZipArchive::new(reader)
Open ==
    /\ pc = "closed"
    /\ eocdr' = read_zip_cd_end(source, overflow_checks)
    /\ \E alloc_ok \in BOOLEAN : archive' = ZipArchiveNew(source, overflow_checks, alloc_ok)
    /\ pc' = IF archive'.tag = "Ok" THEN "open" ELSE "failed"
    /\ cursor' = IF archive'.tag = "Ok" THEN OpenPos(source, eocdr'.val) ELSE Len(source)
    /\ UNCHANGED <<overflow_checks, source, layout, max_read, last, out, stream,
                   scannerVars, pathVars, fieldVars>>

\* The record of a retrieval: what was asked, whether the source stood
\* elsewhere than the open had left it, what came back.
Call(name, arg, before, result) ==
    [op |-> name, arg |-> arg, moved |-> before # OpenPos(source, eocdr.val), res |-> result]

\* An archive that any failure, an error value included, leaves unusable.
AfterCallPoisoned(result) == IF result.tag = "Ok" THEN "open" ELSE "aborted"

\* A panic unwinds out of the call; an error value is returned to the caller,
\* who still holds the archive.
AfterCall(result) == IF result.tag = "Panic" THEN "aborted" ELSE "open"

\* archive.file_by_index(index)
FileByIndex ==
    /\ pc = "open"
    /\ ~stream.active
    /\ \E index \in 0..len(archive.val), alloc_ok \in BOOLEAN :
          LET r == file_by_index(archive.val, source, cursor, index, max_read, alloc_ok)
          IN /\ last' = Call("file_by_index", index, cursor, r.res)
             /\ cursor' = r.pos
             /\ pc' = AfterCall(r.res)
    /\ out' = NoOutput
    /\ UNCHANGED <<overflow_checks, source, layout, eocdr, archive, max_read, stream,
                   scannerVars, pathVars, fieldVars>>

\* archive.file_by_name(name)
FileByName ==
    /\ pc = "open"
    /\ ~stream.active
    /\ \E i \in 0..len(archive.val), alloc_ok \in BOOLEAN :
          LET name == IF i < len(archive.val) THEN file_names(archive.val)[i + 1].inner
                      ELSE NameUnknown
              r == file_by_name(archive.val, source, cursor, name, max_read, alloc_ok)
          IN /\ last' = Call("file_by_name", name, cursor, r.res)
             /\ cursor' = r.pos
             /\ pc' = AfterCall(r.res)
    /\ out' = NoOutput
    /\ UNCHANGED <<overflow_checks, source, layout, eocdr, archive, max_read, stream,
                   scannerVars, pathVars, fieldVars>>

\* A retrieval is dropped at a suspension point: after its seek, or after
\* the read of the signature.  Nothing is returned.
Cancel ==
    /\ pc = "open"
    /\ ~stream.active
    /\ len(archive.val) > 0
    /\ \E i \in 1..len(archive.val), read \in {0, SIGNATURE_LENGTH} :
          cursor' = Min(Len(source),
                     SeekPos(Widen(archive.val.entries[i].value.file_header_offset, 4)) + read)
    /\ last' = NoCall
    /\ out' = NoOutput
    /\ UNCHANGED <<overflow_checks, source, layout, pc, eocdr, archive, max_read, stream,
                   scannerVars, pathVars, fieldVars>>

\* file.extract() on the file the last retrieval returned
Extract ==
    /\ pc = "open"
    /\ last # NoCall
    /\ last.res.tag = "Ok"
    /\ out = NoOutput
    /\ \E alloc_ok \in BOOLEAN : out' = extract(last.res.val, alloc_ok)
    /\ pc' = AfterCall(out')
    /\ UNCHANGED <<overflow_checks, source, layout, eocdr, archive, max_read, cursor, last, stream,
                   scannerVars, pathVars, fieldVars>>

\* archive.stream()
StreamStart ==
    /\ pc = "open"
    /\ ~stream.active
    /\ stream' = [active |-> TRUE, next |-> 0, items |-> <<>>, done |-> FALSE]
    /\ last' = NoCall
    /\ out' = NoOutput
    /\ UNCHANGED <<overflow_checks, source, layout, pc, eocdr, archive, max_read, cursor,
                   scannerVars, pathVars, fieldVars>>

\* stream.next().await: the loop body for the next entry; the first error
\* is yielded and ends the stream.
StreamNext ==
    /\ pc = "open"
    /\ stream.active
    /\ ~stream.done
    /\ IF stream.next >= len(archive.val)
       THEN /\ stream' = [stream EXCEPT !.done = TRUE]
            /\ UNCHANGED <<cursor, pc>>
       ELSE \E alloc_ok \in BOOLEAN :
              LET r == Retrieve(source, cursor, StreamEntry(archive.val, stream.next),
                                max_read, alloc_ok)
              IN /\ stream' = [stream EXCEPT !.items = Append(@, r.res),
                                             !.next = @ + 1,
                                             !.done = r.res.tag # "Ok"]
                 /\ cursor' = r.pos
                 /\ pc' = AfterCall(r.res)
    /\ UNCHANGED <<overflow_checks, source, layout, eocdr, archive, max_read, last, out,
                   scannerVars, pathVars, fieldVars>>

\* The stream is dropped, finished or not.
StreamDrop ==
    /\ pc = "open"
    /\ stream.active
    /\ stream' = NoStream
    /\ UNCHANGED <<overflow_checks, source, layout, pc, eocdr, archive, max_read, cursor, last, out,
                   scannerVars, pathVars, fieldVars>>

Next ==
    \/ Open
    \/ FileByIndex
    \/ FileByName
    \/ Cancel
    \/ Extract
    \/ StreamStart
    \/ StreamNext
    \/ StreamDrop

Spec == Init /\ [][Next]_vars

(***************************************************************************)
(* What the scanner is specified to compute.                               *)
(***************************************************************************)
\* The needle occurs in the haystack at index i, on all of its bytes.
Occurs(sp, pat, i) ==
    /\ i >= 0
    /\ i + Len(pat) <= Len(sp)
    /\ \A k \in 0..(Len(pat) - 1) : At(sp, i + k) = At(pat, k)

Occurrences(sp, pat) == {i \in 0..Len(sp) : Occurs(sp, pat, i)}

MaxOf(S) == CHOOSE x \in S : \A y \in S : y <= x
MinOf(S) == CHOOSE x \in S : \A y \in S : x <= y

\* The left-to-right greedy non-overlapping occurrences starting at or after from.
RECURSIVE GreedyFrom(_, _, _)
GreedyFrom(sp, pat, from) ==
    LET later == {i \in Occurrences(sp, pat) : i >= from}
    IN IF later = {} THEN <<>>
       ELSE <<MinOf(later)>> \o GreedyFrom(sp, pat, MinOf(later) + Len(pat))

Fits == Len(pattern) >= 1 /\ Len(pattern) <= Len(space)

\* C1: for a non-empty needle no longer than the haystack, rsearch returns the
\* greatest index at which the needle occurs on all its bytes, and none exactly
\* when the needle does not occur.
C1_RSearchLast ==
    (op = "rsearch" /\ Fits) =>
        found = IF Occurrences(space, pattern) = {} THEN None
                ELSE Some(MaxOf(Occurrences(space, pattern)))

\* C2: for a non-empty needle no longer than the haystack, search returns the
\* smallest index at which the needle occurs, or none when it does not occur,
\* needles with a repeated byte value included.
C2_SearchFirst ==
    (op = "search" /\ Fits) =>
        found = IF Occurrences(space, pattern) = {} THEN None
                ELSE Some(MinOf(Occurrences(space, pattern)))

\* C3: for a non-empty needle search_all returns a list that is strictly
\* ascending, whose consecutive indices differ by at least the needle's
\* length, and each of whose indices is an occurrence of the needle.
C3_SearchAllSound ==
    (op = "search_all" /\ Len(pattern) >= 1) =>
        /\ found.tag = "Vec"
        /\ \A k \in 1..Len(found.hits) : Occurs(space, pattern, found.hits[k])
        /\ \A k \in 1..(Len(found.hits) - 1) :
               found.hits[k + 1] - found.hits[k] >= Len(pattern)

\* C3 witness: search_all reported several hits of a needle of two or more bytes.
C3_Witness ==
    /\ op = "search_all"
    /\ Len(pattern) >= 2
    /\ found.tag = "Vec"
    /\ Len(found.hits) >= 2

\* C4: search_all returns exactly the left-to-right greedy non-overlapping
\* occurrences of the needle, for every non-empty needle.
C4_SearchAllComplete ==
    (op = "search_all" /\ Len(pattern) >= 1) =>
        found = Hits(GreedyFrom(space, pattern, 0))

\* C5: with an empty haystack, an empty needle or a needle longer than the
\* haystack, each operation returns none (the empty list) and does not panic.
C5_DegenerateInputs ==
    (op # "none" /\ (Len(space) = 0 \/ Len(pattern) = 0 \/ Len(pattern) > Len(space))) =>
        found = IF op = "search_all" THEN Hits(<<>>) ELSE None

(***************************************************************************)
(* What the reader is specified to do, stated on the layout the source was *)
(* serialized from.                                                        *)
(***************************************************************************)
N32(n) == <<n % LimbBase, n \div LimbBase>>
N64(n) == N32(n) \o <<0, 0>>

\* The last min(L, 65557) bytes of a source.
TailWindow(src) ==
    Slice(src, IF Len(src) > MAX_SIZE THEN Len(src) - MAX_SIZE ELSE 0, Len(src))

\* Where the ZIP32 end record of a zip layout starts in its source.
EocdrPos(l) == Len(Serialize(l)) - (SIGNATURE_LENGTH + Zip32Size) - Len(l.comment)

\* The tail scan landed on the ZIP32 end record of the layout.
Zip32Located ==
    rsearch(TailWindow(source), Zip32Signature, overflow_checks) = Some(EocdrPos(layout))

ExpectedComment(l) == IF Len(l.comment) > 0 THEN SomeOf(l.comment) ELSE NoneOf

\* The normalized end record of a zip layout: the ZIP64 record's fields when
\* the ZIP32 record carries the CD-size or the total-entries sentinel, else the
\* ZIP32 record's fields zero-extended.
ExpectedCdEnd(l) ==
    IF l.sentinel \in {"entries", "size"}
    THEN [ version_made_by |-> SomeOf(45),
           version_needed |-> SomeOf(45),
           disk_number |-> N32(0),
           central_directory_start_disk |-> N32(0),
           number_of_entries_in_disk |-> N64(Len(l.files)),
           number_of_entries |-> N64(Len(l.files)),
           central_directory_size |-> N64(CdSize(l)),
           central_directory_offset |-> N64(CdOffset(l)),
           comment |-> ExpectedComment(l) ]
    ELSE [ version_made_by |-> NoneOf,
           version_needed |-> NoneOf,
           disk_number |-> N32(0),
           central_directory_start_disk |-> N32(0),
           number_of_entries_in_disk |-> N64(Len(l.files)),
           number_of_entries |-> N64(Len(l.files)),
           central_directory_size |-> N64(CdSize(l)),
           central_directory_offset |->
               IF l.sentinel = "offset" THEN <<U16Max, U16Max, 0, 0>> ELSE N64(CdOffset(l)),
           comment |-> ExpectedComment(l) ]

DistinctNames(files) ==
    \A i, j \in 1..Len(files) : files[i].name = files[j].name => i = j

RECURSIVE LocalOffset(_, _)
LocalOffset(l, i) ==
    IF i = 1 THEN l.pad ELSE LocalOffset(l, i - 1) + Len(LocalHeader(l.files[i - 1]))

\* C6: opening a source whose tail window holds no ZIP32 end-record signature
\* fails with SignatureNotFound, whatever the source's length (0 and 1..3
\* included).
C6_NoSignatureFails ==
    (pc # "closed" /\ Occurrences(TailWindow(source), Zip32Signature) = {}) =>
        archive = Err("SignatureNotFound")

\* C7: a well-formed ZIP32 archive with a valid UTF-8 comment opens, and
\* comment() is that comment (none when it is empty), whatever bytes the
\* comment and the end record's fixed fields hold.
C7_CommentKept ==
    (/\ pc # "closed"
     /\ layout.kind = "zip"
     /\ layout.zip64 = "none"
     /\ IsUtf8(layout.comment)) =>
        /\ archive.tag = "Ok"
        /\ comment(archive.val) = ExpectedComment(layout)

\* C8: the ZIP64 end record is used exactly when the ZIP32 record's CD size is
\* 0xFFFFFFFF or its total-entries is 0xFFFF; the normalized fields are then
\* the ZIP64 record's, and otherwise the zero-extended ZIP32 fields.
C8_Zip64Authoritative ==
    (/\ pc # "closed"
     /\ layout.kind = "zip"
     /\ layout.zip64 \in {"none", "full", "record_only"}
     /\ IsUtf8(layout.comment)
     /\ Zip32Located) =>
        eocdr = Ok(ExpectedCdEnd(layout))

\* C9: with the sentinel set and no ZIP64 end record reachable by any of the
\* three fallbacks, open fails with SignatureNotFound, also when fewer than 20
\* bytes precede the ZIP32 signature.
C9_Zip64Unresolved ==
    (/\ pc # "closed"
     /\ layout.kind = "zip"
     /\ layout.zip64 = "missing"
     /\ IsUtf8(layout.comment)
     /\ Zip32Located) =>
        /\ eocdr = Err("SignatureNotFound")
        /\ archive = Err("SignatureNotFound")

\* C10: after open of an archive whose central-directory records have pairwise
\* distinct names, file_names() lists the names in the records' order and
\* index i of the map is the i-th record.
C10_InsertionOrder ==
    (/\ pc = "open"
     /\ layout.kind = "zip"
     /\ DistinctNames(layout.files)
     /\ eocdr = Ok(ExpectedCdEnd(layout))
     /\ layout.sentinel # "offset") =>
        /\ file_names(archive.val) = [i \in 1..Len(layout.files) |-> ZipPath(layout.files[i].name)]
        /\ \A i \in 1..Len(layout.files) :
              /\ archive.val.entries[i].value.file_header_offset = N32(LocalOffset(layout, i))
              /\ archive.val.entries[i].value.crc32 = LE32(layout.files[i].crc, 0)

(***************************************************************************)
(* What retrieval is specified to do.                                      *)
(***************************************************************************)
\* The archive is open on a zip layout whose end record was read as laid out.
OpenAsLaidOut ==
    /\ pc = "open"
    /\ layout.kind = "zip"
    /\ layout.sentinel # "offset"
    /\ eocdr = Ok(ExpectedCdEnd(layout))

Names(files) == {files[i].name : i \in 1..Len(files)}

\* The last and the first record of a directory that carry a name.
LastRecord(files, name) == MaxOf({i \in 1..Len(files) : files[i].name = name})
FirstRecord(files, name) == MinOf({i \in 1..Len(files) : files[i].name = name})

\* The position a name has among the distinct names, counted from 0.
Rank(files, name) == Cardinality({files[i].name : i \in 1..(FirstRecord(files, name) - 1)})

\* The entry of the map is the i-th record of the layout's directory.
IsRecord(entry, l, i) ==
    /\ entry.file_name.inner = l.files[i].name
    /\ entry.crc32 = LE32(l.files[i].crc, 0)
    /\ entry.file_header_offset = N32(LocalOffset(l, i))
    /\ entry.comment = IF Len(l.files[i].comment) > 0 THEN SomeOf(l.files[i].comment)
                       ELSE NoneOf

\* C11: when several central-directory records carry the same path, the entry
\* used for the path, by name and by index, is the last such record, at the
\* position of the path's first occurrence; other paths are not shifted.
C11_LastRecordWins ==
    OpenAsLaidOut =>
        \A name \in Names(layout.files) :
            LET at == IndexOfKey(archive.val.entries, ZipPath(name))
            IN /\ at = Rank(layout.files, name) + 1
               /\ IsRecord(archive.val.entries[at].value, layout,
                           LastRecord(layout.files, name))

\* C12: on an open archive, file_by_index(i) for i < len() and
\* file_by_name(file_names()[i]) use the same entry, hence the same
\* local-header offset, and return equal values.
C12_IndexAndNameAgree ==
    (pc \in {"open", "aborted"} /\ last # NoCall /\ last.op = "file_by_index"
        /\ last.arg < len(archive.val)) =>
        LET name == file_names(archive.val)[last.arg + 1].inner
        IN /\ IndexOfKey(archive.val.entries, ZipPath(name)) = last.arg + 1
           /\ \E alloc_ok \in BOOLEAN :
                 last.res = file_by_name(archive.val, source, cursor, name, max_read,
                                         alloc_ok).res

\* A second entry was retrieved by index.
C12_Witness ==
    /\ pc = "open"
    /\ last # NoCall
    /\ last.op = "file_by_index"
    /\ last.arg = 1
    /\ last.res.tag = "Ok"

\* The map holds exactly the records of the layout's directory, in order.
EntriesAreRecords ==
    /\ OpenAsLaidOut
    /\ DistinctNames(layout.files)
    /\ len(archive.val) = Len(layout.files)

\* The source delivers a local header's fixed part in one read call.
WholeReads == max_read >= ZipFileSize

\* Bit b (a power of two) of a Unix mode is set.
ModeBit(mode, b) == (mode \div b) % 2 = 1

\* The file was retrieved for the i-th record, made by a Unix host, and has
\* the attributes of the record's mode.
HasModeOf(file, i) ==
    layout.files[i].host = 3 =>
        /\ is_dir(file) = ModeBit(layout.files[i].mode, 16384)
        /\ is_file(file) = ModeBit(layout.files[i].mode, 32768)

\* C13: for an entry made by a Unix host, the value file_by_name,
\* file_by_index or stream returns has is_dir() true when the directory bit of
\* the central-directory mode is set and is_file() true when the regular-file
\* bit is set.
C13_AttributesAttached ==
    (EntriesAreRecords /\ WholeReads) =>
        /\ (last # NoCall /\ last.res.tag = "Ok") =>
              HasModeOf(last.res.val,
                        IF last.op = "file_by_index" THEN last.arg + 1
                        ELSE IndexOfKey(archive.val.entries, ZipPath(last.arg)))
        /\ stream.active =>
              \A k \in 1..Len(stream.items) :
                  stream.items[k].tag = "Ok" => HasModeOf(stream.items[k].val, k)

\* The entry a recorded retrieval was made for (the call named an entry).
NamesEntry(call) ==
    IF call.op = "file_by_index" THEN call.arg < len(archive.val)
    ELSE IndexOfKey(archive.val.entries, ZipPath(call.arg)) # 0

EntryOf(call) ==
    IF call.op = "file_by_index" THEN archive.val.entries[call.arg + 1].value
    ELSE archive.val.entries[IndexOfKey(archive.val.entries, ZipPath(call.arg))].value

\* The source holds 4 bytes at the entry's stored local-header offset and
\* they are not 50 4B 03 04.
WrongLocalSignature(entry) ==
    LET offset == SeekPos(Widen(entry.file_header_offset, 4))
    IN /\ offset + SIGNATURE_LENGTH <= Len(source)
       /\ Slice(source, offset, offset + SIGNATURE_LENGTH) # ZipFileSignature

\* C14: retrieving, by name, by index or through the stream, an entry whose 4
\* bytes at the stored local-header offset are not 0x04034B50 fails with
\* SignatureNotFound; no ZipFile is returned.
C14_WrongLocalSignature ==
    pc \in {"open", "aborted"} =>
        /\ (last # NoCall /\ NamesEntry(last) /\ WrongLocalSignature(EntryOf(last))) =>
              last.res = Err("SignatureNotFound")
        /\ stream.active =>
              \A k \in 1..Len(stream.items) :
                  WrongLocalSignature(archive.val.entries[k].value) =>
                      stream.items[k] = Err("SignatureNotFound")

\* The entry whose local header starts with 50 4B 03 05 was asked for by name.
C14_Witness ==
    /\ pc = "open"
    /\ last # NoCall
    /\ last.op = "file_by_name"
    /\ last.arg = FileBadSignature.name
    /\ last.res = Err("SignatureNotFound")
    /\ \E i \in 1..Len(layout.files) : layout.files[i] = FileBadSignature

\* The payload of a returned file has the length its header declares.
PayloadComplete(file) == N32(Len(file.data)) = file.compressed_size

\* C15: every ZipFile that file_by_name, file_by_index or stream returns holds
\* exactly compressed_size payload bytes; when the source ends before that
\* many bytes, the retrieval fails instead of returning a shorter payload.
C15_PayloadComplete ==
    (pc = "open" /\ WholeReads) =>
        /\ (last # NoCall /\ last.res.tag = "Ok") => PayloadComplete(last.res.val)
        /\ stream.active =>
              \A k \in 1..Len(stream.items) :
                  stream.items[k].tag = "Ok" => PayloadComplete(stream.items[k].val)

\* extract was applied to the file the last retrieval returned.
Extracted == pc = "open" /\ WholeReads /\ last # NoCall /\ last.res.tag = "Ok" /\ out # NoOutput

\* C16: for a retrieved entry whose method is Stored, extract returns the
\* entry's payload bytes unchanged, and the length of the result is the
\* entry's compressed_size and its uncompressed_size.
C16_StoredExtract ==
    (Extracted /\ last.res.val.compression = "Stored") =>
        /\ out = Ok(last.res.val.data)
        /\ N32(Len(out.val)) = last.res.val.compressed_size
        /\ N32(Len(out.val)) = last.res.val.uncompressed_size

\* C17: for a retrieved entry whose method is not Stored, a successful
\* extract returns uncompressed_size bytes; a stream that decodes to another
\* length does not give a successful result.
C17_DecodedLength ==
    (Extracted /\ last.res.val.compression # "Stored" /\ out.tag = "Ok") =>
        N32(Len(out.val)) = last.res.val.uncompressed_size

(***************************************************************************)
(* What path sanitization is specified to do.                              *)
(***************************************************************************)
\* "etc/passwd"
EtcPasswdClean == <<101, 116, 99, 47, 112, 97, 115, 115, 119, 100>>

\* No segment between the '/' bytes of a string is empty (a root, a doubled
\* or a trailing separator), "." or "..".
OnlyNormalSegments(string) ==
    \/ string = <<>>
    \/ LET segments == SplitOn(string, 47, <<>>)
       IN \A i \in 1..Len(segments) : segments[i] \notin {<<>>, CurDir, ParentDir}

\* C18: sanitization is idempotent and its result has no root,
\* parent-directory or current-directory component; "../etc/passwd" becomes
\* "etc/passwd"; a name read by read_to_zip_path is returned sanitized.
C18_SanitizeIdempotent ==
    clean.made =>
        /\ sanitize(clean).inner = clean.inner
        /\ OnlyNormalSegments(clean.inner)
        /\ path_in = EtcPasswd => clean.inner = EtcPasswdClean

\* "../a" was read by read_to_zip_path and became "a".
C18_Witness ==
    /\ op = "read_to_zip_path"
    /\ path_in = <<46, 46, 47, 97>>
    /\ clean.made
    /\ clean.inner = <<97>>

(***************************************************************************)
(* What stream() is specified to yield.                                    *)
(***************************************************************************)
\* file_by_index(index) on the archive as opened, the source standing at its
\* start, with the allocation outcome given.
FreshByIndex(index, alloc_ok) ==
    file_by_index(archive.val, source, 0, index, max_read, alloc_ok).res

\* Every entry of the archive decodes, whatever the allocator does.
AllDecode ==
    \A k \in 0..(len(archive.val) - 1), alloc_ok \in BOOLEAN :
        FreshByIndex(k, alloc_ok).tag = "Ok"

\* The stream has been polled to its end.
StreamFinished == stream.active /\ stream.done

\* C19: on an opened archive whose entries all decode, the finished stream
\* has yielded len() items, the k-th equal to the result of file_by_index(k),
\* in the order of the entry map; on an archive with no entries it has
\* yielded nothing.
C19_StreamYieldsEveryEntry ==
    (StreamFinished /\ AllDecode) =>
        /\ Len(stream.items) = len(archive.val)
        /\ \A k \in 1..Len(stream.items) : stream.items[k] = FreshByIndex(k - 1, TRUE)
        /\ is_empty(archive.val) => stream.items = <<>>

\* A stream over two entries that differ has been polled to its end and
\* yielded both.
C19_Witness ==
    /\ StreamFinished
    /\ AllDecode
    /\ Len(stream.items) = 2
    /\ stream.items[1] # stream.items[2]

(***************************************************************************)
(* What a retrieval is specified to return wherever the source stands.     *)
(***************************************************************************)
\* The position of the source on a freshly opened archive.
FreshPos == OpenPos(source, eocdr.val)

\* What the last call returns on the freshly opened archive, for some
\* outcome of the allocation.
FreshResults(call) ==
    IF call.op = "file_by_index"
    THEN {file_by_index(archive.val, source, FreshPos, call.arg, max_read, alloc_ok).res :
              alloc_ok \in BOOLEAN}
    ELSE {file_by_name(archive.val, source, FreshPos, call.arg, max_read, alloc_ok).res :
              alloc_ok \in BOOLEAN}

\* C20: what file_by_name, file_by_index and each stream step return does
\* not depend on where the source stands when they start: after retrievals
\* that succeeded, failed or were cancelled, the value is the one the
\* freshly opened archive gives.
C20_PositionIndependent ==
    /\ last.op \in {"file_by_index", "file_by_name"} => last.res \in FreshResults(last)
    /\ stream.active =>
          \A k \in 1..Len(stream.items) :
              stream.items[k] \in FreshResults([op |-> "file_by_index", arg |-> k - 1])

\* A retrieval by name that started with the source elsewhere than the open
\* had left it has returned a file.
C20_Witness ==
    /\ last.op = "file_by_name"
    /\ last.moved
    /\ last.res.tag = "Ok"
    /\ last.res.val.data # <<>>

(***************************************************************************)
(* What retrievals are specified to leave alone.                           *)
(***************************************************************************)
\* The last retrieval, or the last step of the stream, returned an error.
RetrievalFailed ==
    \/ last.op \in {"file_by_index", "file_by_name"} /\ last.res.tag = "Err"
    \/ /\ stream.active
       /\ Len(stream.items) > 0
       /\ stream.items[Len(stream.items)].tag = "Err"

\* Every entry that the freshly opened archive gives can be retrieved now.
ValidEntriesRetrievable ==
    \A k \in 0..(len(archive.val) - 1), alloc_ok \in BOOLEAN :
        FreshByIndex(k, alloc_ok).tag = "Ok" =>
            file_by_index(archive.val, source, cursor, k, max_read, alloc_ok).res.tag = "Ok"

\* C21: no retrieval or stream step, successful or failed, changes the entry
\* map or the comment fixed at open, and after a failed retrieval the
\* archive is still open and every valid entry can still be retrieved.
C21_MapReadOnly ==
    [][ /\ pc = "open" => archive' = archive
        /\ (pc = "open" /\ RetrievalFailed) => ValidEntriesRetrievable
        /\ (pc = "open" /\ RetrievalFailed') => pc' = "open" ]_vars

\* The entry at index 0 has a bad local header, and a retrieval that started
\* where an earlier operation had left the source returned the entry at
\* index 1.
C21_Witness ==
    /\ pc = "open"
    /\ len(archive.val) = 2
    /\ FreshByIndex(0, TRUE).tag = "Err"
    /\ last.op = "file_by_index"
    /\ last.arg = 1
    /\ last.moved
    /\ last.res.tag = "Ok"

(***************************************************************************)
(* What retrieval is specified to do with the parts of the format it does  *)
(* not honour.                                                             *)
(***************************************************************************)
\* The entry the call was made for has general-purpose flag bit 3 set.
HasDataDescriptor(call) == NamesEntry(call) /\ EntryOf(call).flags.data_drescriptor

\* C22: retrieving or extracting an entry whose flag bit 3 (data descriptor)
\* is set fails with FeatureNotSupported; no file is returned with a payload
\* sized by the local header's size fields.
C22_DataDescriptorRejected ==
    (pc = "open" /\ WholeReads /\ last # NoCall /\ HasDataDescriptor(last)) =>
        \/ last.res = Err("FeatureNotSupported")
        \/ last.res.tag = "Ok" /\ out # NoOutput /\ out = Err("FeatureNotSupported")

\* The record of the layout that the entry of the call was decoded from,
\* when the entry's 32-bit offset or sizes are the ZIP64 sentinel and the
\* record carries the ZIP64 extended-information extra field; 0 otherwise.
Zip64RecordOf(call) ==
    IF /\ NamesEntry(call)
       /\ U32Max \in {EntryOf(call).file_header_offset, EntryOf(call).compressed_size,
                      EntryOf(call).uncompressed_size}
       /\ \E i \in 1..Len(layout.files) :
             layout.files[i].zip64 /\ layout.files[i].name = EntryOf(call).file_name.inner
    THEN CHOOSE i \in 1..Len(layout.files) :
             layout.files[i].zip64 /\ layout.files[i].name = EntryOf(call).file_name.inner
    ELSE 0

\* C23: when an entry's 32-bit sizes or local-header offset are 0xFFFFFFFF
\* and the entry carries a ZIP64 extended-information extra field, retrieval
\* seeks to the 64-bit offset of that field and returns the payload of the
\* field's 64-bit compressed size.
C23_Zip64ExtraConsulted ==
    (OpenAsLaidOut /\ WholeReads /\ last # NoCall /\ Zip64RecordOf(last) # 0) =>
        /\ last.res.tag = "Ok"
        /\ last.res.val.data = layout.files[Zip64RecordOf(last)].data

\* C24: the name of the value file_by_name or file_by_index returns is the
\* name of the central-directory entry, the key the entry is stored under,
\* also when the local header holds another name.
C24_CentralNameReturned ==
    (pc = "open" /\ WholeReads /\ last # NoCall /\ last.res.tag = "Ok" /\ NamesEntry(last)) =>
        /\ last.res.val.file_name.inner = EntryOf(last).file_name.inner
        /\ last.op = "file_by_name" => last.res.val.file_name.inner = last.arg

(***************************************************************************)
(* What the decoders of header fields are specified to compute.            *)
(***************************************************************************)
\* The time and the date word of the image that was decoded.
TimeWord == field_in.bytes[1] + 256 * field_in.bytes[2]
DateWord == field_in.bytes[3] + 256 * field_in.bytes[4]

\* C25: for every MS-DOS time/date image (time word t, date word d) the
\* decoded datetime has year = 1980 + (d >> 9), month = (d >> 5) & 0xF,
\* day = d & 0x1F, hour = t >> 11, minute = (t >> 5) & 0x3F and
\* second = 2 * (t & 0x1F), out-of-range values kept.
C25_DateTimeFields ==
    (field_in.kind = "datetime" /\ field_out # NoField) =>
        field_out = Ok([ year |-> 1980 + DateWord \div 512,
                         month |-> (DateWord \div 32) % 16,
                         day |-> DateWord % 32,
                         hour |-> TimeWord \div 2048,
                         minute |-> (TimeWord \div 32) % 64,
                         second |-> 2 * (TimeWord % 32) ])

\* The Unix mode of the word that was decoded: its high 16 bits.
ModeOf == field_in.word[2]

\* C26: for a Unix host the decoded attributes have directory, file and
\* symlink set by the type bits 0o040000, 0o100000 and 0o120000 of the mode
\* and each of the nine permission flags equal to its mode bit; for MsDos
\* and NTFS hosts every field is false.
C26_UnixModeBits ==
    (field_in.kind = "attributes" /\ field_out # NoField) =>
        IF field_in.host = "Unix"
        THEN field_out =
                Ok([ directory |-> ModeBit(ModeOf, 16384),
                     file |-> ModeBit(ModeOf, 32768),
                     symbolic |-> ModeBit(ModeOf, 32768) /\ ModeBit(ModeOf, 8192),
                     owner |-> [read |-> ModeBit(ModeOf, 256), write |-> ModeBit(ModeOf, 128),
                                execute |-> ModeBit(ModeOf, 64)],
                     group |-> [read |-> ModeBit(ModeOf, 32), write |-> ModeBit(ModeOf, 16),
                                execute |-> ModeBit(ModeOf, 8)],
                     other |-> [read |-> ModeBit(ModeOf, 4), write |-> ModeBit(ModeOf, 2),
                                execute |-> ModeBit(ModeOf, 1)] ])
        ELSE field_out = Ok(DefaultAttributes)

\* The record that was decoded is one of the two Unicode records.
IsUnicodeRecord ==
    field_in.header_id \in {ZIP_UNICODE_COMMENT_INFO_EXTRA_FIELD, ZIP_UNICODE_PATH_INFO_EXTRA_FIELD}

\* The names the two Unicode records have in results and errors.
UnicodeField ==
    IF field_in.header_id = ZIP_UNICODE_COMMENT_INFO_EXTRA_FIELD
    THEN "ZipUnicodeCommentInfo" ELSE "ZipUnicodePathInfo"
UnicodeIncomplete ==
    IF field_in.header_id = ZIP_UNICODE_COMMENT_INFO_EXTRA_FIELD
    THEN "ZipUnicodeCommentExtraFieldInfoIncomplete" ELSE "ZipUnicodePathInfoExtraFieldIncomplete"

\* C28: ExtraField::from_bytes dispatches on the header ID; an ID it does not
\* know gives Unknown with header_id, data_size and the raw bytes; for both
\* Unicode records with data_size = len(data), a version-1 body of at least
\* 5 bytes gives V1 with crc32 = bytes 1..5 and unicode = bytes 5..data_size,
\* a shorter version-1 body gives the record's Incomplete error, and another
\* version is kept raw with bytes 1..data_size.
C28_ExtraFieldDispatch ==
    (/\ field_in.kind = "extra"
     /\ field_out # NoField
     /\ field_in.data_size = Len(field_in.data)) =>
        LET data == field_in.data
        IN /\ field_in.header_id = ZIP64_EXTENDED_INFO_EXTRA_FIELD =>
                  field_out.tag = "Ok" /\ field_out.val.field = "Zip64ExtendedInfo"
           /\ field_in.header_id \notin {ZIP64_EXTENDED_INFO_EXTRA_FIELD} /\ ~IsUnicodeRecord =>
                  field_out = Ok([ field |-> "Unknown", header_id |-> field_in.header_id,
                                   data_size |-> field_in.data_size, content |-> data ])
           /\ (IsUnicodeRecord /\ Len(data) >= 5 /\ data[1] = 1) =>
                  field_out = Ok([ field |-> UnicodeField, version |-> "V1",
                                   crc32 |-> <<data[2] + 256 * data[3], data[4] + 256 * data[5]>>,
                                   unicode |-> SubSeq(data, 6, Len(data)) ])
           /\ (IsUnicodeRecord /\ Len(data) \in 1..4 /\ data[1] = 1) =>
                  field_out = Err(UnicodeIncomplete)
           /\ (IsUnicodeRecord /\ Len(data) >= 1 /\ data[1] # 1) =>
                  field_out = Ok([ field |-> UnicodeField, version |-> data[1],
                                   data |-> SubSeq(data, 2, Len(data)) ])

(***************************************************************************)
(* What the central-directory walk is specified to do.                     *)
(***************************************************************************)
\* The bytes of the central directory of a zip layout.
CdBuffer(l) == CentralBytes(l.files, l.pad)

\* The record at index i of the buffer fits in it: its 46 fixed bytes and
\* the name, extra field and comment whose lengths they declare.
RecordFits(buffer, i) ==
    /\ Len(buffer) - i >= EntrySize + SIGNATURE_LENGTH
    /\ Len(buffer) - i >= EntrySize + SIGNATURE_LENGTH
                            + LE16(buffer, i + 28) + LE16(buffer, i + 30) + LE16(buffer, i + 32)

\* The end record was read as laid out and the central directory holds a
\* record signature whose record does not fit in the rest of it.
ShortRecord ==
    /\ pc # "closed"
    /\ layout.kind = "zip"
    /\ layout.sentinel # "offset"
    /\ eocdr = Ok(ExpectedCdEnd(layout))
    /\ \E i \in Occurrences(CdBuffer(layout), EntrySignature) : ~RecordFits(CdBuffer(layout), i)

\* C27: a signature match of the central-directory walk whose record does
\* not fit in the remaining buffer makes open return an error; it causes no
\* out-of-bounds access and no abort.
C27_ShortRecordRejected == ShortRecord => archive.tag = "Err"

\* C29: for a well-formed archive whose records have pairwise distinct names,
\* len() after open is the number of records of the central directory, the
\* total-entries count of the end record, also when a record holds the bytes
\* 50 4B 01 02.
C29_LenIsRecordCount ==
    (OpenAsLaidOut /\ DistinctNames(layout.files)) =>
        /\ len(archive.val) = Len(layout.files)
        /\ N64(len(archive.val)) = eocdr.val.number_of_entries

(***************************************************************************)
(* What read_zipfile is specified to do on a source that splits its data   *)
(* across read calls.                                                      *)
(***************************************************************************)
\* What the call returns on a source that delivers every byte asked for in
\* one read call, for some outcome of the allocation.
WholeReadResults(call) ==
    IF call.op = "file_by_index"
    THEN {file_by_index(archive.val, source, FreshPos, call.arg, ZipFileSize, alloc_ok).res :
              alloc_ok \in BOOLEAN}
    ELSE {file_by_name(archive.val, source, FreshPos, call.arg, ZipFileSize, alloc_ok).res :
              alloc_ok \in BOOLEAN}

\* C30: read_zipfile decodes the fixed fields of the local header from the
\* 26 bytes after the signature however the source splits its data across
\* read calls: what a retrieval returns is what it returns when every read
\* call delivers all the bytes asked for.
C30_HeaderReadWhole ==
    /\ (pc = "open" /\ last # NoCall) => last.res \in WholeReadResults(last)
    /\ (pc = "open" /\ stream.active) =>
          \A k \in 1..Len(stream.items) :
              stream.items[k] \in WholeReadResults([op |-> "file_by_index", arg |-> k - 1])

====
